---- MODULE Spec2Model ----
(***************************************************************************)
(* Reminder core of the To-Do reminder bot: the reminder store             *)
(* (db/models.py TaskManager), the job table (scheduler/scheduler.py       *)
(* ReminderScheduler on an APScheduler AsyncIOScheduler) and the delivery  *)
(* paths of scheduler/reminder_jobs.py ReminderJobHandler: the timer       *)
(* callback handle_reminder_callback and the sweep                         *)
(* _process_reminders_loop / _process_pending_reminders / _send_reminder.  *)
(*                                                                         *)
(* Everything runs on one asyncio event loop, so the code between two      *)
(* awaits is one atomic step; each action below is one such segment.       *)
(* The clock is in whole units that are longer than the job table's        *)
(* misfire grace, so a job seen after its unit has passed is a misfire.    *)
(***************************************************************************)
EXTENDS Integers, Sequences, FiniteSets, TLC

\* ---- bounds of the model ----
MaxTime == 1
MaxTasks == 1
MaxReminders == 1
MaxLoops == 1
Backlog == 2
MaxAdds == 2
MaxAmount == 3
MaxHandlers == 2
MaxSends == 2

TaskIds == 1..MaxTasks
\* Reminder ids: MaxReminders bounds the ids handed out when reminders are
\* created in this run; Backlog is the number of reminders in the store of
\* InitRestart.
PersistedIds == 1..Backlog
ReminderIds == 1..(IF Backlog > MaxReminders THEN Backlog ELSE MaxReminders)
Loops == 1..MaxLoops
\* Handlers on_ready builds in one run of the process, where it is called
\* again on every reconnect.
Handlers == 1..MaxHandlers

\* Offsets of the host's time zone from UTC, in clock units.
UtcOffsets == {-1, 0, 1}

\* Outcomes of the two awaited messaging calls (bot.fetch_user, user.send).
FetchOutcomes == {"ok", "NotFound", "HTTPException"}
SendOutcomes == {"ok", "Forbidden", "Error"}

VARIABLES
    alive,              \* the process is running (main has not reached its cleanup)
    now,                \* the clock, in the host's local time (datetime.now())
    utc_offset,         \* units the host's local time is ahead of UTC
    persisted,          \* ids of the reminders the store held at process start
    tasks,              \* tasks collection: set of stored task ids
    details,            \* tasks collection, the documents: task id -> [title,
                        \* description, due_date, priority, completed]
    reminders,          \* reminders collection: id -> [task_id, reminder_time, sent]
    nextId,             \* next fresh reminder id
    jobs,               \* scheduler job table: set of [id, run_date, task_id]
    running,            \* reminder_scheduler.start() has been called
    reminder_callback,  \* 0 = None, else the handler whose callback is registered
    timers,             \* fired jobs whose coroutine is in flight: id -> [pc, task_id]
    loops,              \* sweep loop of each started handler: [pc, queue, att];
                        \* att counts the _send_reminder calls of the running
                        \* cycle per selected reminder, empty between cycles
    is_running,         \* ReminderJobHandler.is_running of each handler
    sends,              \* history: user.send calls that returned without raising
    cancelled,          \* history: "no", or delete_reminder(id), or an
                        \* operation of the scheduler that removed id's job,
                        \* came "early" (before the due time) or "late"
    adds,               \* history: add_reminder(id, ...) calls made on the
                        \* scheduler's interface, per id
    clock,              \* datetime.now() as a calendar datetime, as the time
                        \* parser and the remind command read it
    request,            \* the call being made: a remind command as typed, or
                        \* the argument of a TimeParser function
    reply,              \* what the call did: the command's reply, or the
                        \* function's return value or exception
    messages            \* reminders collection, message field: id -> text

vars == <<alive, now, utc_offset, persisted, tasks, details, reminders, nextId, jobs, running,
          reminder_callback, timers, loops, is_running, sends, cancelled, adds,
          clock, request, reply, messages>>

storeVars == <<persisted, tasks, details, reminders, nextId>>
histVars == <<sends, cancelled, adds>>
cmdVars == <<clock, request, reply, messages>>

\* ---- helpers on finite maps ----
Without(f, k) == [x \in DOMAIN f \ {k} |-> f[x]]
With(f, k, v) == [x \in DOMAIN f \cup {k} |-> IF x = k THEN v ELSE f[x]]

RECURSIVE SortedSeq(_)
SortedSeq(S) ==
    IF S = {} THEN <<>>
    ELSE LET m == CHOOSE x \in S : \A y \in S : x <= y
         IN <<m>> \o SortedSeq(S \ {m})

\* datetime.utcnow() when datetime.now() is local_time.
utcnow(local_time, offset) == local_time - offset

\* ---- db/models.py ----

\* Reminder(...): a new record has sent = False.
Reminder(task_id, reminder_time) ==
    [task_id |-> task_id, reminder_time |-> reminder_time, sent |-> FALSE]

\* TaskManager.get_task_by_id: the task or None.
get_task_by_id(ts, task_id) == task_id \in ts

\* TaskManager.create_reminder: insert_one under a fresh id.
TaskManager_create_reminder(rs, id, reminder) == With(rs, id, reminder)

\* get_pending_reminders with the sent filter dropped from the query.
get_pending_reminders_any_sent(rs, current_time) ==
    {r \in DOMAIN rs : rs[r].reminder_time <= current_time}

\* TaskManager.get_pending_reminders: reminder_time <= current_time, sent False.
get_pending_reminders(rs, current_time) ==
    {r \in DOMAIN rs : rs[r].reminder_time <= current_time /\ ~rs[r].sent}

\* mark_reminder_sent writing the negated flag instead of True.
mark_reminder_sent_toggle(rs, id) ==
    IF id \in DOMAIN rs THEN [rs EXCEPT ![id].sent = ~@] ELSE rs

\* TaskManager.mark_reminder_sent: update_one $set sent True.
mark_reminder_sent(rs, id) ==
    IF id \in DOMAIN rs THEN [rs EXCEPT ![id].sent = TRUE] ELSE rs

\* delete_task without the delete_many on the reminders collection.
delete_task_no_cascade(ts, rs, task_id) ==
    [tasks |-> ts \ {task_id}, reminders |-> rs, val |-> task_id \in ts]

\* TaskManager.delete_task: delete_one on tasks, delete_many on reminders,
\* returns deleted_count > 0.
delete_task(ts, rs, task_id) ==
    [tasks |-> ts \ {task_id},
     reminders |-> [r \in {x \in DOMAIN rs : rs[x].task_id # task_id} |-> rs[r]],
     val |-> task_id \in ts]

\* ---- scheduler/scheduler.py ----

\* The job add_reminder builds: id reminder_<id>, a date trigger at run_date,
\* args [reminder_id, task_id].
Job(id, run_date, task_id) == [id |-> id, run_date |-> run_date, task_id |-> task_id]

JobIds(js) == {j.id : j \in js}
JobsOf(js, id) == {j \in js : j.id = id}

\* add_reminder storing the new job next to whatever the id already has.
add_reminder_append(js, id, reminder_time, task_id) ==
    js \cup {Job(id, reminder_time, task_id)}

\* add_reminder without replace_existing: add_job raises for an id that is
\* already stored, and the job stored first is kept.
add_reminder_keep_first(js, id, reminder_time, task_id) ==
    IF JobsOf(js, id) # {} THEN js ELSE js \cup {Job(id, reminder_time, task_id)}

\* ReminderScheduler.add_reminder: add_job(id = reminder_<id>, replace_existing
\* = True): a job already stored under the id is replaced. Returns True.
add_reminder(js, id, reminder_time, task_id) ==
    (js \ JobsOf(js, id)) \cup {Job(id, reminder_time, task_id)}

\* ReminderScheduler.remove_reminder: remove_job and return True; for a
\* missing job remove_job raises, the except branch logs "Failed to remove
\* reminder" with logger.error and returns False.
remove_reminder(js, id) ==
    [jobs |-> js \ JobsOf(js, id),
     val |-> JobsOf(js, id) # {},
     error |-> JobsOf(js, id) = {}]

\* ReminderScheduler.update_reminder: remove_job, then get_job on the id just
\* removed, which finds nothing, so the add_job branch is never reached and
\* False is returned; for a missing job remove_job raises and the except
\* branch returns False.
update_reminder(js, id, new_time) ==
    [jobs |-> js \ JobsOf(js, id), val |-> FALSE, error |-> JobsOf(js, id) = {}]

\* ReminderScheduler.clear_all_jobs: remove_all_jobs.
clear_all_jobs(js) == {}

\* _trigger_reminder without its try/except: an exception of the callback
\* reaches the scheduler and stops it.
trigger_reminder_unhandled(sched, id, outcome) ==
    IF outcome = "ok" THEN sched ELSE [sched EXCEPT !.running = FALSE]

\* ReminderScheduler._trigger_reminder when the awaited callback has returned
\* or raised: an exception is caught and logged, and the coroutine returns;
\* the scheduler (its job table, its running state) is as it was.
trigger_reminder(sched, id, outcome) == sched

\* ---- scheduler/reminder_jobs.py ----

\* ReminderJobHandler.create_reminder: persist the record, then register the
\* job; returns the new id.
create_reminder(rs, js, id, task_id, reminder_time) ==
    [reminders |-> TaskManager_create_reminder(rs, id, Reminder(task_id, reminder_time)),
     jobs |-> add_reminder(js, id, reminder_time, task_id),
     val |-> id]

\* create_reminder with an add_reminder that lets the exception of add_job
\* through: create_reminder's except branch returns None after the insert.
create_reminder_add_unguarded(rs, js, id, task_id, reminder_time, insert, add) ==
    IF insert = "raise" THEN [reminders |-> rs, jobs |-> js, val |-> 0]
    ELSE IF add = "raise"
    THEN [reminders |-> TaskManager_create_reminder(rs, id, Reminder(task_id, reminder_time)),
          jobs |-> js, val |-> 0]
    ELSE create_reminder(rs, js, id, task_id, reminder_time)

\* ReminderJobHandler.create_reminder with the calls it makes failing or
\* not: insert_one raises (nothing is inserted, the except branch returns
\* None, here 0), or add_job raises inside add_reminder, which catches it and
\* returns False, a value create_reminder does not look at.
create_reminder_or_fail(rs, js, id, task_id, reminder_time, insert, add) ==
    IF insert = "raise" THEN [reminders |-> rs, jobs |-> js, val |-> 0]
    ELSE IF add = "raise"
    THEN [reminders |-> TaskManager_create_reminder(rs, id, Reminder(task_id, reminder_time)),
          jobs |-> js, val |-> id]
    ELSE create_reminder(rs, js, id, task_id, reminder_time)

\* ReminderJobHandler.delete_reminder: remove the job, then "for now, we'll
\* just mark it as sent"; returns True.
delete_reminder(rs, js, id) ==
    [reminders |-> mark_reminder_sent(rs, id),
     jobs |-> remove_reminder(js, id).jobs,
     val |-> TRUE]

\* _send_reminder with the return of the except branches missing, so that a
\* failed send falls through to mark_reminder_sent.
send_reminder_fall_through(rs, id, outcome) == mark_reminder_sent(rs, id)

\* _send_reminder treating a refused send (Forbidden) as final: the except
\* branch marks the reminder sent.
send_reminder_mark_denied(rs, id, outcome) ==
    IF outcome \in {"ok", "Forbidden"} THEN mark_reminder_sent(rs, id) ELSE rs

\* _send_reminder after user.send has returned or raised: only the branch
\* without an exception reaches mark_reminder_sent.
send_reminder(rs, id, outcome) ==
    IF outcome = "ok" THEN mark_reminder_sent(rs, id) ELSE rs

\* handle_reminder_callback after user.send has returned or raised.
handle_reminder_callback(rs, id, outcome) ==
    IF outcome = "ok" THEN mark_reminder_sent(rs, id) ELSE rs

\* The sweep's for-loop up to its next await: _send_reminder returns at once
\* for a reminder whose task is missing, so those are passed over in the
\* same segment; the first reminder whose task exists is left awaiting
\* bot.fetch_user at the head of the queue. When the list is exhausted the
\* cycle is over and the loop sleeps.
RECURSIVE Rest(_, _)
Rest(q, ts) ==
    IF q = <<>> THEN <<>>
    ELSE IF get_task_by_id(ts, Head(q).task_id) THEN q
    ELSE Rest(Tail(q), ts)

RECURSIVE Skipped(_, _)
Skipped(q, ts) ==
    IF q = <<>> THEN {}
    ELSE IF get_task_by_id(ts, Head(q).task_id) THEN {}
    ELSE {Head(q).id} \cup Skipped(Tail(q), ts)

Invoked(q, ts) ==
    Skipped(q, ts) \cup (IF Rest(q, ts) = <<>> THEN {} ELSE {Head(Rest(q, ts)).id})

send_next(loop, q, ts) ==
    [pc |-> IF Rest(q, ts) = <<>> THEN "sleep" ELSE "fetch",
     queue |-> Rest(q, ts),
     att |-> IF Rest(q, ts) = <<>> THEN <<>>
             ELSE [r \in DOMAIN loop.att |->
                      loop.att[r] + (IF r \in Invoked(q, ts) THEN 1 ELSE 0)]]

\* _process_pending_reminders: the query at current_time and the snapshot
\* list the for-loop iterates.
process_pending_reminders(rs, current_time) ==
    LET pend == get_pending_reminders(rs, current_time)
        ids == SortedSeq(pend)
    IN [sel |-> pend,
        queue |-> [i \in 1..Len(ids) |-> [id |-> ids[i], task_id |-> rs[ids[i]].task_id]]]

\* Ids that have been handed out: persisted ones and those created since.
\* ---- text: Python str and re, on the characters the bot's inputs use ----
\* The operators of this section and of the two after it are the standard
\* library's functions the parser and the remind command call, computed as
\* CPython computes them; texts are strings read character by character.

Char(s, i) == SubSeq(s, i, i)
From(s, i) == SubSeq(s, i, Len(s))

UpperCase == "ABCDEFGHIJKLMNOPQRSTUVWXYZ"
LowerCase == "abcdefghijklmnopqrstuvwxyz"
Digits == "0123456789"
Quotes == {"'", "\""}

\* s.find(c) counted from 1: the first position of character c, 0 if none.
RECURSIVE find(_, _, _)
find(s, c, i) ==
    IF i > Len(s) THEN 0
    ELSE IF Char(s, i) = c THEN i
    ELSE find(s, c, i + 1)

IsDigit(c) == find(Digits, c, 1) # 0
IsSpace(c) == c = " "

\* str.lower()
RECURSIVE lower(_)
lower(s) ==
    IF s = "" THEN ""
    ELSE LET u == find(UpperCase, Char(s, 1), 1)
         IN (IF u = 0 THEN Char(s, 1) ELSE Char(LowerCase, u)) \o lower(From(s, 2))

\* str.lstrip(), str.rstrip(), str.strip()
RECURSIVE lstrip(_)
lstrip(s) == IF s # "" /\ IsSpace(Char(s, 1)) THEN lstrip(From(s, 2)) ELSE s
RECURSIVE rstrip(_)
rstrip(s) ==
    IF s # "" /\ IsSpace(Char(s, Len(s))) THEN rstrip(SubSeq(s, 1, Len(s) - 1)) ELSE s
strip(s) == lstrip(rstrip(s))

\* s.startswith(p)
startswith(s, p) == Len(s) >= Len(p) /\ SubSeq(s, 1, Len(p)) = p

\* Length of the run of digits s starts with (what a greedy \d+ takes).
RECURSIVE digit_run(_)
digit_run(s) ==
    IF s # "" /\ IsDigit(Char(s, 1)) THEN 1 + digit_run(From(s, 2)) ELSE 0

\* int(s) of a string of digits.
RECURSIVE int(_)
int(s) ==
    IF s = "" THEN 0
    ELSE 10 * int(SubSeq(s, 1, Len(s) - 1)) + (find(Digits, Char(s, Len(s)), 1) - 1)

\* s.replace("'", "").replace('"', "")
RECURSIVE remove_quotes(_)
remove_quotes(s) ==
    IF s = "" THEN ""
    ELSE (IF Char(s, 1) \in Quotes THEN "" ELSE Char(s, 1)) \o remove_quotes(From(s, 2))

\* First position from i on of a quote character, 0 if none.
RECURSIVE find_quote(_, _)
find_quote(s, i) ==
    IF i > Len(s) THEN 0
    ELSE IF Char(s, i) \in Quotes THEN i
    ELSE find_quote(s, i + 1)

\* re.findall(r'[\'"]([^\'"]*)[\'"]', s): scanning left to right, a match is
\* a quote character, the text up to the next quote character of either
\* kind, and that quote character; the scan goes on behind the match.
RECURSIVE findall_quoted(_)
findall_quoted(s) ==
    LET i == find_quote(s, 1)
        j == IF i = 0 THEN 0 ELSE find_quote(s, i + 1)
    IN IF j = 0 THEN <<>>
       ELSE <<SubSeq(s, i + 1, j - 1)>> \o findall_quoted(From(s, j + 1))

\* re.sub(r'[\'"][^\'"]*[\'"]', '', s): the same matches, deleted.
RECURSIVE sub_quoted(_)
sub_quoted(s) ==
    LET i == find_quote(s, 1)
        j == IF i = 0 THEN 0 ELSE find_quote(s, i + 1)
    IN IF j = 0 THEN s
       ELSE SubSeq(s, 1, i - 1) \o sub_quoted(From(s, j + 1))

\* " ".join(parts)
RECURSIVE join(_)
join(parts) ==
    IF parts = <<>> THEN ""
    ELSE IF Len(parts) = 1 THEN parts[1]
    ELSE parts[1] \o " " \o join(Tail(parts))

\* s.split(): the maximal runs of non-space characters.
RECURSIVE word_end(_, _)
word_end(s, i) ==
    IF i > Len(s) \/ IsSpace(Char(s, i)) THEN i - 1 ELSE word_end(s, i + 1)
RECURSIVE split(_)
split(s) ==
    LET t == lstrip(s)
    IN IF t = "" THEN <<>>
       ELSE <<SubSeq(t, 1, word_end(t, 1))>> \o split(From(t, word_end(t, 1) + 1))

\* s.split(" ", 1): cut at the first space, if there is one.
split_once(s) ==
    LET i == find(s, " ", 1)
    IN IF i = 0 THEN <<s>> ELSE <<SubSeq(s, 1, i - 1), From(s, i + 1)>>

\* s.replace(" ", "")
RECURSIVE remove_spaces(_)
remove_spaces(s) ==
    IF s = "" THEN ""
    ELSE (IF IsSpace(Char(s, 1)) THEN "" ELSE Char(s, 1)) \o remove_spaces(From(s, 2))

\* ---- datetime, timedelta (the standard library's arithmetic) ----

\* What a call gives back: a datetime, None, or an exception it raises.
None == [type |-> "None"]
Raise(exc) == [type |-> "raise", exc |-> exc]

datetime(year, month, day, hour, minute, second, microsecond) ==
    [type |-> "datetime", year |-> year, month |-> month, day |-> day,
     hour |-> hour, minute |-> minute, second |-> second, microsecond |-> microsecond]

DAYS_IN_MONTH == <<31, 28, 31, 30, 31, 30, 31, 31, 30, 31, 30, 31>>
DAYS_BEFORE_MONTH == <<0, 31, 59, 90, 120, 151, 181, 212, 243, 273, 304, 334>>

is_leap(year) == year % 4 = 0 /\ (year % 100 # 0 \/ year % 400 = 0)

days_in_month(year, month) ==
    IF month = 2 /\ is_leap(year) THEN 29 ELSE DAYS_IN_MONTH[month]

days_before_year(year) ==
    LET y == year - 1
    IN y * 365 + (y \div 4) - (y \div 100) + (y \div 400)

days_before_month(year, month) ==
    DAYS_BEFORE_MONTH[month] + (IF month > 2 /\ is_leap(year) THEN 1 ELSE 0)

ymd2ord(year, month, day) ==
    days_before_year(year) + days_before_month(year, month) + day

\* The date of a day number; 146097, 36524 and 1461 are the days of 400, 100
\* and 4 years.
ord2ymd(ordinal) ==
    LET n0 == ordinal - 1
        n400 == n0 \div 146097
        na == n0 % 146097
        n100 == na \div 36524
        nb == na % 36524
        n4 == nb \div 1461
        nc == nb % 1461
        n1 == nc \div 365
        n == nc % 365
        year == n400 * 400 + 1 + n100 * 100 + n4 * 4 + n1
        leapyear == n1 = 3 /\ (n4 # 24 \/ n100 = 3)
        m0 == (n + 50) \div 32
        p0 == DAYS_BEFORE_MONTH[m0] + (IF m0 > 2 /\ leapyear THEN 1 ELSE 0)
        month == IF p0 > n THEN m0 - 1 ELSE m0
        preceding ==
            IF p0 > n
            THEN p0 - (DAYS_IN_MONTH[month] + (IF month = 2 /\ leapyear THEN 1 ELSE 0))
            ELSE p0
    IN IF n1 = 4 \/ n100 = 4
       THEN [year |-> year - 1, month |-> 12, day |-> 31]
       ELSE [year |-> year, month |-> month, day |-> n - preceding + 1]

toordinal(dt) == ymd2ord(dt.year, dt.month, dt.day)

\* dt.weekday(): Monday is 0.
weekday(dt) == (toordinal(dt) + 6) % 7

SecondOfDay(dt) == dt.hour * 3600 + dt.minute * 60 + dt.second

\* timedelta(days=, seconds=, microseconds=), normalized; OverflowError
\* beyond 999999999 days.
timedelta(days, seconds, microseconds) ==
    LET s == seconds + (microseconds \div 1000000)
        d == days + (s \div 86400)
    IN IF d > 999999999 \/ d < -999999999
       THEN Raise("OverflowError")
       ELSE [type |-> "timedelta", days |-> d, seconds |-> s % 86400,
             microseconds |-> microseconds % 1000000]

\* timedelta(minutes=n), timedelta(hours=n): the same normal form, the whole
\* days taken out first.
timedelta_minutes(n) == timedelta(n \div 1440, (n % 1440) * 60, 0)
timedelta_hours(n) == timedelta(n \div 24, (n % 24) * 3600, 0)

\* datetime + timedelta; OverflowError when the date leaves years 1..9999
\* (day numbers 1..3652059).
dt_add(dt, delta) ==
    IF delta.type = "raise" THEN delta
    ELSE LET sum == timedelta(toordinal(dt) + delta.days,
                              SecondOfDay(dt) + delta.seconds,
                              dt.microsecond + delta.microseconds)
         IN IF sum.type = "raise" \/ sum.days <= 0 \/ sum.days > 3652059
            THEN Raise("OverflowError")
            ELSE LET ymd == ord2ymd(sum.days)
                 IN datetime(ymd.year, ymd.month, ymd.day, sum.seconds \div 3600,
                             (sum.seconds % 3600) \div 60, sum.seconds % 60,
                             sum.microseconds)

\* datetime - datetime
dt_sub(a, b) ==
    timedelta(toordinal(a) - toordinal(b), SecondOfDay(a) - SecondOfDay(b),
              a.microsecond - b.microsecond)

\* timedelta.total_seconds() < 0
is_negative(delta) == delta.days < 0

\* a <= b on datetimes
dt_le(a, b) ==
    LET d == dt_sub(a, b)
    IN d.days < 0 \/ (d.days = 0 /\ d.seconds = 0 /\ d.microseconds = 0)

\* dt.replace(hour=, minute=, second=0, microsecond=0); ValueError when hour
\* is not in 0..23 or minute not in 0..59.
replace(dt, hour, minute) ==
    IF hour > 23 \/ minute > 59 THEN Raise("ValueError")
    ELSE datetime(dt.year, dt.month, dt.day, hour, minute, 0, 0)

\* ---- datetime.strptime, strftime, for the directives the parser uses ----

MonthAbbr == <<"jan", "feb", "mar", "apr", "may", "jun",
               "jul", "aug", "sep", "oct", "nov", "dec">>
MonthName == <<"january", "february", "march", "april", "may", "june", "july",
               "august", "september", "october", "november", "december">>

\* The fields strptime starts from: 1900-01-01 00:00, no %I and no %p seen.
NoFields ==
    [type |-> "fields", Y |-> 1900, m |-> 1, d |-> 1, H |-> 0, I |-> -1, M |-> 0,
     p |-> ""]
NoMatch == [type |-> "fail"]

\* s starts with len digits whose value is in lo..hi.
IsNumber(s, len, lo, hi) ==
    /\ Len(s) >= len
    /\ digit_run(SubSeq(s, 1, len)) = len
    /\ int(SubSeq(s, 1, len)) >= lo
    /\ int(SubSeq(s, 1, len)) <= hi

\* The month a name table has s start with, 0 if none.
month_of(s, names) ==
    IF \E k \in 1..12 : startswith(s, names[k])
    THEN CHOOSE k \in 1..12 : startswith(s, names[k])
    ELSE 0

\* strptime's regular expression, matched against the whole of s: a directive
\* tries its alternatives in the order of its pattern (two digits before
\* one) and falls back when the rest does not match; a space of the format is
\* \s+; any other character is itself; letters match in either case.
RECURSIVE strp_match(_, _, _)
RECURSIVE strp_number(_, _, _, _, _, _, _)
strp_number(s, len, lo, hi, key, fmt, f) ==
    IF IsNumber(s, len, lo, hi)
    THEN strp_match(From(s, len + 1), fmt, [f EXCEPT ![key] = int(SubSeq(s, 1, len))])
    ELSE NoMatch

\* a | b of a regular expression: the first alternative that lets the whole
\* pattern match.
or_else(first, second) == IF first.type # "fail" THEN first ELSE second

RECURSIVE strp_two_one(_, _, _, _, _, _)
strp_two_one(s, lo2, lo1, hi, key, fmt_f) ==
    or_else(strp_number(s, 2, lo2, hi, key, fmt_f[1], fmt_f[2]),
            strp_number(s, 1, lo1, 9, key, fmt_f[1], fmt_f[2]))

RECURSIVE strp_month(_, _, _, _, _)
strp_month(s, names, k, fmt, f) ==
    IF k = 0 THEN NoMatch
    ELSE strp_match(From(s, Len(names[k]) + 1), fmt, [f EXCEPT !.m = k])

RECURSIVE strp_directive(_, _, _, _)
strp_directive(s, d, fmt, f) ==
    CASE d = "Y" -> strp_number(s, 4, 0, 9999, "Y", fmt, f)
      [] d = "m" -> strp_two_one(s, 1, 1, 12, "m", <<fmt, f>>)
      [] d = "d" ->
            or_else(strp_two_one(s, 1, 1, 31, "d", <<fmt, f>>),
                    IF s # "" /\ Char(s, 1) = " "
                    THEN strp_number(From(s, 2), 1, 1, 9, "d", fmt, f)
                    ELSE NoMatch)
      [] d = "H" -> strp_two_one(s, 0, 0, 23, "H", <<fmt, f>>)
      [] d = "I" -> strp_two_one(s, 1, 1, 12, "I", <<fmt, f>>)
      [] d = "M" -> strp_two_one(s, 0, 0, 59, "M", <<fmt, f>>)
      [] d = "p" ->
            IF startswith(lower(s), "am") \/ startswith(lower(s), "pm")
            THEN strp_match(From(s, 3), fmt, [f EXCEPT !.p = lower(SubSeq(s, 1, 2))])
            ELSE NoMatch
      [] d = "b" -> strp_month(s, MonthAbbr, month_of(lower(s), MonthAbbr), fmt, f)
      [] d = "B" -> strp_month(s, MonthName, month_of(lower(s), MonthName), fmt, f)
      [] OTHER -> NoMatch

strp_match(s, fmt, f) ==
    IF fmt = "" THEN (IF s = "" THEN f ELSE NoMatch)
    ELSE IF Char(fmt, 1) = "%" THEN strp_directive(s, Char(fmt, 2), From(fmt, 3), f)
    ELSE IF IsSpace(Char(fmt, 1))
    THEN (IF s # "" /\ IsSpace(Char(s, 1))
          THEN strp_match(lstrip(s), From(fmt, 2), f)
          ELSE NoMatch)
    ELSE IF s # "" /\ Char(s, 1) = Char(fmt, 1)
    THEN strp_match(From(s, 2), From(fmt, 2), f)
    ELSE NoMatch

\* The datetime strptime builds from the fields it matched: ValueError when
\* there was no match or the day is not in the month; a %I hour is read with
\* %p (none: as AM).
strp_datetime(f) ==
    IF f.type = "fail" THEN Raise("ValueError")
    ELSE IF f.d > days_in_month(f.Y, f.m) \/ f.Y < 1 THEN Raise("ValueError")
    ELSE datetime(f.Y, f.m, f.d,
                  IF f.I = -1 THEN f.H
                  ELSE IF f.p = "pm" THEN (IF f.I # 12 THEN f.I + 12 ELSE f.I)
                  ELSE (IF f.I = 12 THEN 0 ELSE f.I),
                  f.M, 0, 0)

\* datetime.strptime(s, fmt)
strptime(s, fmt) == strp_datetime(strp_match(s, fmt, NoFields))

\* The decimal digits of n, at least width of them (zero padded).
RECURSIVE zfill(_, _)
zfill(n, width) ==
    IF n < 10 /\ width <= 1 THEN Char(Digits, n + 1)
    ELSE zfill(n \div 10, width - 1) \o Char(Digits, (n % 10) + 1)

\* str(n)
str(n) == zfill(n, 1)

\* dt.strftime("%Y-%m-%d %I:%M %p")
strftime_ymd_12h(dt) ==
    LET h12 == IF dt.hour % 12 = 0 THEN 12 ELSE dt.hour % 12
    IN zfill(dt.year, 4) \o "-" \o zfill(dt.month, 2) \o "-" \o zfill(dt.day, 2) \o " "
       \o zfill(h12, 2) \o ":" \o zfill(dt.minute, 2) \o " "
       \o (IF dt.hour < 12 THEN "AM" ELSE "PM")

\* ---- utils/timeparser.py ----

\* re.match(r'in (\d+) <unit>s?', s): the digits of group 1, "" if no match.
\* re.match anchors at the start only, so the optional s and whatever
\* follows the unit do not matter.
match_in(s, unit) ==
    IF ~startswith(s, "in ") THEN ""
    ELSE LET n == digit_run(From(s, 4))
         IN IF n >= 1 /\ startswith(From(s, 4 + n), " " \o unit)
            THEN SubSeq(s, 4, 3 + n)
            ELSE ""

weekday_names == <<"monday", "tuesday", "wednesday", "thursday", "friday",
                  "saturday", "sunday">>

\* re.match(r'next (monday|...|sunday)', s): position of the name, 0 if no match.
match_next_weekday(s) ==
    IF \E k \in 1..7 : startswith(s, "next " \o weekday_names[k])
    THEN CHOOSE k \in 1..7 : startswith(s, "next " \o weekday_names[k])
    ELSE 0

\* re.match(r'(today|tomorrow) at (\d{1,2}):(\d{2})(am|pm)?', s): the groups,
\* or NoMatch.
match_day_at(s) ==
    LET day == IF startswith(s, "today at ") THEN "today"
               ELSE IF startswith(s, "tomorrow at ") THEN "tomorrow"
               ELSE ""
        t == From(s, Len(day) + 5)
        n == digit_run(t)
        u == From(t, n + 1)
        v == From(u, 4)
    IN IF day = "" \/ n < 1 \/ n > 2 THEN NoMatch
       ELSE IF ~(startswith(u, ":") /\ Len(u) >= 3 /\ digit_run(SubSeq(u, 2, 3)) = 2)
       THEN NoMatch
       ELSE [type |-> "match", day |-> day, hour |-> int(SubSeq(t, 1, n)),
             minute |-> int(SubSeq(u, 2, 3)),
             ampm |-> IF startswith(v, "am") THEN "am"
                      ELSE IF startswith(v, "pm") THEN "pm"
                      ELSE ""]

\* _get_next_weekday adding the week only when the target day is behind: for
\* today's own weekday it answers today.
get_next_weekday_today(target, current) ==
    LET days_ahead == target - weekday(current)
    IN dt_add(current, timedelta(IF days_ahead < 0 THEN days_ahead + 7 ELSE days_ahead,
                                 0, 0))

\* TimeParser._get_next_weekday; target counts Monday as 0.
get_next_weekday(target, current) ==
    LET days_ahead == target - weekday(current)
    IN dt_add(current, timedelta(IF days_ahead <= 0 THEN days_ahead + 7 ELSE days_ahead,
                                 0, 0))

\* TimeParser._get_specific_time
get_specific_time(day, hour, minute, ampm, current) ==
    LET h == IF ampm = "pm" /\ hour # 12 THEN hour + 12
             ELSE IF ampm = "am" /\ hour = 12 THEN 0
             ELSE hour
        target_time == replace(current, h, minute)
    IN IF target_time.type = "raise" THEN target_time
       ELSE IF day = "tomorrow" THEN dt_add(target_time, timedelta(1, 0, 0))
       ELSE target_time

\* The branch of a matching "(today|tomorrow) at" pattern, else None.
specific_time_of(at, current) ==
    IF at.type = "match"
    THEN get_specific_time(at.day, at.hour, at.minute, at.ampm, current)
    ELSE None

\* The patterns of parse_relative_time in the order of the source: the first
\* that matches decides.
relative_time(s, current) ==
    IF match_in(s, "minute") # ""
       THEN dt_add(current, timedelta_minutes(int(match_in(s, "minute"))))
       ELSE IF match_in(s, "hour") # ""
       THEN dt_add(current, timedelta_hours(int(match_in(s, "hour"))))
       ELSE IF match_in(s, "day") # ""
       THEN dt_add(current, timedelta(int(match_in(s, "day")), 0, 0))
       ELSE IF startswith(s, "tomorrow") THEN dt_add(current, timedelta(1, 0, 0))
       ELSE IF startswith(s, "next week") THEN dt_add(current, timedelta(7, 0, 0))
       ELSE IF match_next_weekday(s) # 0
       THEN get_next_weekday(match_next_weekday(s) - 1, current)
       ELSE specific_time_of(match_day_at(s), current)

\* TimeParser.parse_relative_time
parse_relative_time(time_str, current) == relative_time(strip(lower(time_str)), current)

\* The layouts without the two that have no space before AM/PM.
formats_spaced ==
    <<"%Y-%m-%d %H:%M", "%Y-%m-%d %I:%M %p",
      "%d/%m/%Y %H:%M", "%d/%m/%Y %I:%M %p", "%m/%d/%Y %H:%M", "%m/%d/%Y %I:%M %p",
      "%b %d %I:%M %p", "%B %d %I:%M %p", "%Y-%m-%d %I:%M %p">>

\* The layouts of parse_absolute_time, in the order they are tried.
formats ==
    <<"%Y-%m-%d %H:%M", "%Y-%m-%d %I:%M %p", "%Y-%m-%d %I:%M%p",
      "%d/%m/%Y %H:%M", "%d/%m/%Y %I:%M %p", "%m/%d/%Y %H:%M", "%m/%d/%Y %I:%M %p",
      "%b %d %I:%M %p", "%B %d %I:%M %p", "%Y-%m-%d %I:%M %p", "%Y-%m-%d %I:%M%p">>

\* try: return <result> / except ValueError: continue with <rest>.
first_datetime(result, rest) == IF result.type = "datetime" THEN result ELSE rest

\* for fmt in formats[k..]: try strptime, on ValueError continue.
RECURSIVE try_formats(_, _)
try_formats(s, k) ==
    IF k > Len(formats) THEN None
    ELSE first_datetime(strptime(s, formats[k]), try_formats(s, k + 1))

\* The two combinations of parse_absolute_time's date part and time part.
try_combinations(date_part, time_part) ==
    first_datetime(try_formats(date_part \o " " \o time_part, 1),
                   try_formats(date_part \o " " \o remove_spaces(time_part), 1))

\* parse_absolute_time from "parts = time_str.split()" on.
try_parts(parts) ==
    IF Len(parts) < 2 THEN None
    ELSE try_combinations(parts[1], join(Tail(parts)))

\* parse_absolute_time behind the strip and the removal of the quotes.
absolute_time(s) == first_datetime(try_formats(s, 1), try_parts(split(s)))

\* TimeParser.parse_absolute_time
parse_absolute_time(time_str) == absolute_time(remove_quotes(strip(time_str)))

\* "if result: return result", then the next attempt; an exception raised by
\* the first attempt goes to the caller.
first_result(result, rest) == IF result.type # "None" THEN result ELSE rest

\* TimeParser.parse_time: relative first, then absolute.
parse_time(time_str, current) ==
    first_result(parse_relative_time(time_str, current), parse_absolute_time(time_str))

\* TimeParser.format_time
format_time(dt) == strftime_ymd_12h(dt)

\* f"in {n} <unit>{'s' if n != 1 else ''}"
in_units(n, unit) == "in " \o str(n) \o " " \o unit \o (IF n # 1 THEN "s" ELSE "")

\* TimeParser.format_relative_time
format_relative_time(dt, current) ==
    LET diff == dt_sub(dt, current)
        hours == diff.seconds \div 3600
        minutes == (diff.seconds % 3600) \div 60
    IN IF is_negative(diff) THEN "past due"
       ELSE IF diff.days > 0 THEN in_units(diff.days, "day")
       ELSE IF hours > 0 THEN in_units(hours, "hour")
       ELSE IF minutes > 0 THEN in_units(minutes, "minute")
       ELSE "now"

\* ---- cogs/tasks.py: the task commands ----

\* Task(user_id, title): the document of a new task.
Task(title) ==
    [title |-> title, description |-> "", due_date |-> None, priority |-> "medium",
     completed |-> FALSE]

HexDigits == "0123456789abcdef"

\* re.match(r'^[a-f0-9]{24}$', task_id), on the rest of the text from i on.
RECURSIVE all_hex(_, _)
all_hex(s, i) ==
    IF i > Len(s) THEN TRUE
    ELSE find(HexDigits, Char(s, i), 1) # 0 /\ all_hex(s, i + 1)

\* ValidationHelper.validate_task_id: an empty text is refused, then "$" of
\* the pattern matches at the end of the text and also before a newline
\* that ends it.
validate_task_id(task_id) ==
    /\ task_id # ""
    /\ Len(task_id) >= 24
    /\ all_hex(SubSeq(task_id, 1, 24), 1)
    /\ \/ Len(task_id) = 24
       \/ Len(task_id) = 25 /\ Char(task_id, 25) = "\n"

\* str(task._id) of stored task t, and the task an id text names (0: none).
ObjectIdText(t) == "64b7f0c2a1d3e4f5a6b7c8d" \o str(t)
task_of(task_id) ==
    IF \E t \in TaskIds : ObjectIdText(t) = task_id
    THEN CHOOSE t \in TaskIds : ObjectIdText(t) = task_id
    ELSE 0

\* task.user_id: the tasks of the model all belong to user 1.
user_id(t) == 1

\* set_reminder's cut of time_and_message into the time text and the message.
split_time_and_message(text) ==
    IF find_quote(text, 1) # 0
    THEN IF findall_quoted(text) # <<>>
         THEN [time_str |-> join(findall_quoted(text)),
               message |-> strip(sub_quoted(text))]
         ELSE [time_str |-> text, message |-> ""]
    ELSE [time_str |-> split_once(text)[1],
          message |-> IF Len(split_once(text)) > 1 THEN split_once(text)[2] ELSE ""]

\* What the command leaves behind: the store, the job table and its reply;
\* time_str is the text it handed to parse_time ("" if it did not get there).
Outcome(store, text, time_str) ==
    [store EXCEPT !.reply = [type |-> "reply", text |-> text, time_str |-> time_str]]

\* The test of set_reminder's future check passing only times before now.
not_in_future_before(reminder_time, current) ==
    is_negative(dt_sub(reminder_time, current))

\* "if reminder_time <= datetime.now()"
not_in_future(reminder_time, current) == dt_le(reminder_time, current)

\* set_reminder from the result of parse_time on: an exception goes to the
\* outer except, None and a time that is not in the future are refused, else
\* ReminderJobHandler.create_reminder stores the record and adds the job.
set_reminder_parsed(store, t, cut, reminder_time, current) ==
    IF reminder_time.type = "raise"
    THEN Outcome(store, "Failed to set reminder. Please try again.", strip(cut.time_str))
    ELSE IF reminder_time.type = "None"
    THEN Outcome(store, "Invalid time format!", strip(cut.time_str))
    ELSE IF not_in_future(reminder_time, current)
    THEN Outcome(store, "Reminder time must be in the future!", strip(cut.time_str))
    ELSE Outcome(
            [store EXCEPT
                !.reminders = create_reminder(store.reminders, store.jobs, store.nextId,
                                              t, reminder_time).reminders,
                !.jobs = create_reminder(store.reminders, store.jobs, store.nextId,
                                         t, reminder_time).jobs,
                !.nextId = store.nextId + 1,
                !.messages = With(store.messages, store.nextId, cut.message)],
            "Reminder Set!", strip(cut.time_str))

\* set_reminder from the cut of time_and_message on.
set_reminder_cut(store, t, cut, current) ==
    set_reminder_parsed(store, t, cut, parse_time(strip(cut.time_str), current), current)

\* TaskCommands.set_reminder(ctx, task_id, time_and_message)
set_reminder(store, author, task_id, time_and_message, current) ==
    IF ~validate_task_id(task_id) THEN Outcome(store, "Invalid task ID format!", "")
    ELSE IF ~get_task_by_id(store.tasks, task_of(task_id))
    THEN Outcome(store, "Task not found!", "")
    ELSE IF user_id(task_of(task_id)) # author
    THEN Outcome(store, "You can only set reminders for your own tasks!", "")
    ELSE set_reminder_cut(store, task_of(task_id),
                          split_time_and_message(time_and_message), current)

\* ValidationHelper.validate_priority
validate_priority(priority) == lower(priority) \in {"low", "medium", "high"}

\* ValidationHelper.sanitize_input(text, max_length)
sanitize_input(text, max_length) ==
    IF Len(join(split(text))) > max_length
    THEN SubSeq(join(split(text)), 1, max_length - 3) \o "..."
    ELSE join(split(text))

\* TaskManager.update_task: update_one $set on the document of the id,
\* returns modified_count > 0 (a document the update leaves as it was is
\* not counted).
update_task(ds, t, doc) ==
    [details |-> IF t \in DOMAIN ds THEN [ds EXCEPT ![t] = doc] ELSE ds,
     val |-> t \in DOMAIN ds /\ ds[t] # doc]

\* A command from its update of the task's document on.
updated(store, t, doc, done, failed) ==
    IF update_task(store.details, t, doc).val
    THEN Outcome([store EXCEPT !.details = update_task(store.details, t, doc).details],
                 done, "")
    ELSE Outcome(store, failed, "")

\* TaskCommands.view_task(ctx, task_id)
view_task(store, author, task_id) ==
    IF ~validate_task_id(task_id) THEN Outcome(store, "Invalid task ID format!", "")
    ELSE IF ~get_task_by_id(store.tasks, task_of(task_id))
    THEN Outcome(store, "Task not found!", "")
    ELSE IF user_id(task_of(task_id)) # author
    THEN Outcome(store, "You can only view your own tasks!", "")
    ELSE Outcome(store, "Task Details", "")

\* complete_task without its test of the task's owner.
complete_task_anyone(store, author, task_id) ==
    IF ~validate_task_id(task_id) THEN Outcome(store, "Invalid task ID format!", "")
    ELSE IF ~get_task_by_id(store.tasks, task_of(task_id))
    THEN Outcome(store, "Task not found!", "")
    ELSE IF store.details[task_of(task_id)].completed
    THEN Outcome(store, "Task is already completed!", "")
    ELSE updated(store, task_of(task_id),
                 [store.details[task_of(task_id)] EXCEPT !.completed = TRUE],
                 "Task Completed!", "Failed to complete task. Please try again.")

\* TaskCommands.complete_task(ctx, task_id)
complete_task(store, author, task_id) ==
    IF ~validate_task_id(task_id) THEN Outcome(store, "Invalid task ID format!", "")
    ELSE IF ~get_task_by_id(store.tasks, task_of(task_id))
    THEN Outcome(store, "Task not found!", "")
    ELSE IF user_id(task_of(task_id)) # author
    THEN Outcome(store, "You can only complete your own tasks!", "")
    ELSE IF store.details[task_of(task_id)].completed
    THEN Outcome(store, "Task is already completed!", "")
    ELSE updated(store, task_of(task_id),
                 [store.details[task_of(task_id)] EXCEPT !.completed = TRUE],
                 "Task Completed!", "Failed to complete task. Please try again.")

\* delete_task of the commands from TaskManager.delete_task on.
deleted(store, d) ==
    IF d.val
    THEN Outcome([store EXCEPT !.tasks = d.tasks,
                               !.details = [x \in d.tasks |-> store.details[x]],
                               !.reminders = d.reminders],
                 "Task Deleted", "")
    ELSE Outcome(store, "Failed to delete task. Please try again.", "")

\* TaskCommands.delete_task(ctx, task_id)
delete_task_command(store, author, task_id) ==
    IF ~validate_task_id(task_id) THEN Outcome(store, "Invalid task ID format!", "")
    ELSE IF ~get_task_by_id(store.tasks, task_of(task_id))
    THEN Outcome(store, "Task not found!", "")
    ELSE IF user_id(task_of(task_id)) # author
    THEN Outcome(store, "You can only delete your own tasks!", "")
    ELSE deleted(store, delete_task(store.tasks, store.reminders, task_of(task_id)))

\* edit_task for the field due_date, from the result of parse_time on.
edit_due_date(store, t, due_date) ==
    IF due_date.type = "raise"
    THEN Outcome(store, "Failed to edit task. Please try again.", "")
    ELSE IF due_date.type = "None"
    THEN Outcome(store, "Invalid date format!", "")
    ELSE updated(store, t, [store.details[t] EXCEPT !.due_date = due_date],
                 "Task Updated!", "Failed to update task. Please try again.")

\* edit_task from its test of the field on.
edit_field(store, t, field, value, current) ==
    IF field = "title"
    THEN IF sanitize_input(value, 100) = ""
         THEN Outcome(store, "Title cannot be empty!", "")
         ELSE updated(store, t, [store.details[t] EXCEPT !.title = sanitize_input(value, 100)],
                      "Task Updated!", "Failed to update task. Please try again.")
    ELSE IF field = "description"
    THEN updated(store, t,
                 [store.details[t] EXCEPT !.description = sanitize_input(value, 500)],
                 "Task Updated!", "Failed to update task. Please try again.")
    ELSE IF field = "due_date"
    THEN edit_due_date(store, t, parse_time(value, current))
    ELSE IF field = "priority"
    THEN IF ~validate_priority(value)
         THEN Outcome(store, "Invalid priority! Use: low, medium, or high", "")
         ELSE updated(store, t, [store.details[t] EXCEPT !.priority = lower(value)],
                      "Task Updated!", "Failed to update task. Please try again.")
    ELSE Outcome(store, "Invalid field!", "")

\* TaskCommands.edit_task(ctx, task_id, field, value)
edit_task(store, author, task_id, field, value, current) ==
    IF ~validate_task_id(task_id) THEN Outcome(store, "Invalid task ID format!", "")
    ELSE IF ~get_task_by_id(store.tasks, task_of(task_id))
    THEN Outcome(store, "Task not found!", "")
    ELSE IF user_id(task_of(task_id)) # author
    THEN Outcome(store, "You can only edit your own tasks!", "")
    ELSE edit_field(store, task_of(task_id), lower(field), value, current)

\* TaskCommands.set_priority(ctx, task_id, priority)
set_priority(store, author, task_id, priority) ==
    IF ~validate_task_id(task_id) THEN Outcome(store, "Invalid task ID format!", "")
    ELSE IF ~validate_priority(priority)
    THEN Outcome(store, "Invalid priority! Use: low, medium, or high", "")
    ELSE IF ~get_task_by_id(store.tasks, task_of(task_id))
    THEN Outcome(store, "Task not found!", "")
    ELSE IF user_id(task_of(task_id)) # author
    THEN Outcome(store, "You can only set priority for your own tasks!", "")
    ELSE updated(store, task_of(task_id),
                 [store.details[task_of(task_id)] EXCEPT !.priority = lower(priority)],
                 "Priority Updated!", "Failed to update priority. Please try again.")

\* No remind command is typed and no TimeParser function is called.
NoCommand ==
    /\ clock = 0
    /\ request = [op |-> "none"]
    /\ reply = [type |-> "none"]
    /\ messages = <<>>

Issued == 1..(nextId - 1)

\* Process start: the database is fresh, or an earlier run of the process
\* left unsent reminders in it; the job table is in memory only and starts
\* empty.
Init ==
    /\ alive = TRUE
    /\ now = 0
    /\ utc_offset = 0
    /\ \E p \in 0..MaxReminders :
          /\ persisted = 1..p
          /\ reminders \in [1..p -> {Reminder(t, d) : t \in TaskIds, d \in 0..MaxTime}]
          /\ nextId = p + 1
    /\ tasks = TaskIds
    /\ details = [t \in TaskIds |-> Task("Buy milk")]
    /\ jobs = {}
    /\ running = FALSE
    /\ reminder_callback = 0
    /\ timers = <<>>
    /\ loops = [l \in Loops |-> [pc |-> "off", queue |-> <<>>, att |-> <<>>]]
    /\ is_running = [l \in Loops |-> FALSE]
    /\ sends = [r \in ReminderIds |-> 0]
    /\ cancelled = [r \in ReminderIds |-> "no"]
    /\ adds = [r \in ReminderIds |-> 0]
    /\ NoCommand

\* cogs/tasks.py set_reminder for the task's owner: the task exists and the
\* parsed time is after now, then ReminderJobHandler.create_reminder.
SetReminder(t, d) ==
    /\ alive
    /\ nextId <= MaxReminders
    /\ get_task_by_id(tasks, t)
    /\ d > now
    /\ LET c == create_reminder(reminders, jobs, nextId, t, d)
       IN /\ reminders' = c.reminders
          /\ jobs' = c.jobs
    /\ nextId' = nextId + 1
    /\ UNCHANGED <<alive, now, utc_offset, cmdVars, persisted, tasks, details, running, reminder_callback, timers,
                   loops, is_running, histVars>>

\* ReminderJobHandler.delete_reminder(id) for an id that was handed out. No
\* command or event of the bot calls it; it is an operation of the handler's
\* interface (NextApi).
DeleteReminder(r) ==
    /\ alive
    /\ r \in Issued
    /\ LET d == delete_reminder(reminders, jobs, r)
       IN /\ reminders' = d.reminders
          /\ jobs' = d.jobs
    /\ cancelled' = [cancelled EXCEPT ![r] =
                         IF @ # "no" THEN @
                         ELSE IF r \in DOMAIN reminders /\ now < reminders[r].reminder_time
                         THEN "early" ELSE "late"]
    /\ UNCHANGED <<alive, now, utc_offset, cmdVars, persisted, tasks, details, nextId, running,
                   reminder_callback, timers, loops, is_running, sends, adds>>

\* TaskManager.delete_task(id), for a stored or an already deleted task;
\* the job table is not touched.
DeleteTask(t) ==
    /\ alive
    /\ LET d == delete_task(tasks, reminders, t)
       IN /\ tasks' = d.tasks
          /\ details' = [x \in d.tasks |-> details[x]]
          /\ reminders' = d.reminders
    /\ UNCHANGED <<alive, now, utc_offset, cmdVars, persisted, nextId, jobs, running, reminder_callback,
                   timers, loops, is_running, histVars>>

\* bot.py on_ready: a new ReminderJobHandler, its callback registered, the
\* scheduler started, and the handler's sweep loop task created.
OnReady ==
    /\ alive
    /\ \E l \in DOMAIN loops :
          /\ loops[l].pc = "off"
          /\ \A k \in DOMAIN loops : k < l => loops[k].pc # "off"
          /\ reminder_callback' = l
          /\ is_running' = [is_running EXCEPT ![l] = TRUE]
          /\ loops' = [loops EXCEPT ![l].pc = "sleep"]
    /\ running' = TRUE
    /\ UNCHANGED <<alive, now, utc_offset, cmdVars, storeVars, jobs, timers, histVars>>

\* The clock advances one unit; a started scheduler has processed every job
\* that is due before the unit is over.
Tick ==
    /\ alive
    /\ now < MaxTime
    /\ running => \A j \in jobs : j.run_date > now
    /\ now' = now + 1
    /\ UNCHANGED <<alive, utc_offset, cmdVars, storeVars, jobs, running, reminder_callback, timers,
                   loops, is_running, histVars>>

\* bot.py main, the cleanup after bot.start has returned or raised:
\* stop_reminder_processor, reminder_scheduler.stop() (the scheduler shuts
\* down, its memory job store drops every job and the callbacks in flight are
\* cancelled), and the event loop is closed, which cancels the sweep loops.
\* The store keeps what it holds.
Shutdown ==
    /\ alive
    /\ alive' = FALSE
    /\ jobs' = {}
    /\ running' = FALSE
    /\ reminder_callback' = 0
    /\ timers' = <<>>
    /\ loops' = [l \in DOMAIN loops |-> [pc |-> "off", queue |-> <<>>, att |-> <<>>]]
    /\ is_running' = [l \in DOMAIN loops |-> l # reminder_callback /\ is_running[l]]
    /\ UNCHANGED <<now, utc_offset, cmdVars, storeVars, histVars>>

\* ---- the timer path ----

\* The job table processes job id, which is due: the job is removed (a date
\* trigger has no next run) and its coroutine is created, unless the run is
\* later than the misfire grace (the job was registered before the scheduler
\* was started and its unit has passed); then the run is skipped.
JobDue(r) ==
    /\ alive
    /\ running
    /\ \E j \in JobsOf(jobs, r) :
          /\ j.run_date <= now
          /\ timers' = IF j.run_date = now
                        THEN With(timers, r, [pc |-> "start", task_id |-> j.task_id])
                        ELSE timers
          /\ jobs' = jobs \ {j}
    /\ UNCHANGED <<alive, now, utc_offset, cmdVars, storeVars, running, reminder_callback, loops, is_running, histVars>>

\* CallbackStart with _trigger_reminder going on without its test of
\* self.reminder_callback.
CallbackStartUnchecked(r) ==
    /\ alive
    /\ r \in DOMAIN timers
    /\ timers[r].pc = "start"
    /\ timers' = IF get_task_by_id(tasks, timers[r].task_id)
                  THEN [timers EXCEPT ![r].pc = "fetch"]
                  ELSE Without(timers, r)
    /\ UNCHANGED <<alive, now, utc_offset, cmdVars, storeVars, jobs, running,
                   reminder_callback, loops, is_running, histVars>>

\* _trigger_reminder and the first segment of handle_reminder_callback: no
\* callback, or the task is missing -> return; else await bot.fetch_user.
CallbackStart(r) ==
    /\ alive
    /\ r \in DOMAIN timers
    /\ timers[r].pc = "start"
    /\ timers' = IF reminder_callback # 0 /\ get_task_by_id(tasks, timers[r].task_id)
                  THEN [timers EXCEPT ![r].pc = "fetch"]
                  ELSE Without(timers, r)
    /\ UNCHANGED <<alive, now, utc_offset, cmdVars, storeVars, jobs, running, reminder_callback, loops, is_running,
                   histVars>>

\* bot.fetch_user returns or raises: on success the embed is built and
\* user.send is awaited.
CallbackFetched(r, outcome) ==
    /\ alive
    /\ r \in DOMAIN timers
    /\ timers[r].pc = "fetch"
    /\ timers' = IF outcome = "ok"
                  THEN [timers EXCEPT ![r].pc = "send"]
                  ELSE Without(timers, r)
    /\ LET s == trigger_reminder([jobs |-> jobs, running |-> running], r, outcome)
       IN jobs' = s.jobs /\ running' = s.running
    /\ UNCHANGED <<alive, now, utc_offset, cmdVars, storeVars, reminder_callback, loops, is_running, histVars>>

\* user.send returns or raises; then mark_reminder_sent on success.
CallbackSent(r, outcome) ==
    /\ alive
    /\ r \in DOMAIN timers
    /\ timers[r].pc = "send"
    /\ timers' = Without(timers, r)
    /\ reminders' = handle_reminder_callback(reminders, r, outcome)
    /\ sends' = [sends EXCEPT ![r] = IF outcome = "ok" THEN @ + 1 ELSE @]
    /\ LET s == trigger_reminder([jobs |-> jobs, running |-> running], r, outcome)
       IN jobs' = s.jobs /\ running' = s.running
    /\ UNCHANGED <<alive, now, utc_offset, cmdVars, persisted, tasks, details, nextId, reminder_callback,
                   loops, is_running, cancelled, adds>>

\* ---- the sweep path ----

\* A loop whose while condition is always true: a cycle starts at the end of
\* every sleep, stopped or not.
SweepCycleForever(l) ==
    /\ alive
    /\ loops[l].pc = "sleep"
    /\ LET p == process_pending_reminders(reminders, utcnow(now, utc_offset))
           fresh == [pc |-> "sleep", queue |-> <<>>, att |-> [r \in p.sel |-> 0]]
       IN loops' = [loops EXCEPT ![l] = send_next(fresh, p.queue, tasks)]
    /\ UNCHANGED <<alive, is_running, now, utc_offset, cmdVars, storeVars, jobs, running, reminder_callback, timers,
                   histVars>>

\* One cycle of _process_reminders_loop starts (the loop task's first run or
\* the end of its sleep): the query, then the for-loop up to its first await.
SweepCycle(l) ==
    /\ alive
    /\ loops[l].pc = "sleep"
    /\ is_running[l]
    /\ LET p == process_pending_reminders(reminders, utcnow(now, utc_offset))
           fresh == [pc |-> "sleep", queue |-> <<>>, att |-> [r \in p.sel |-> 0]]
       IN loops' = [loops EXCEPT ![l] = send_next(fresh, p.queue, tasks)]
    /\ UNCHANGED <<alive, is_running, now, utc_offset, cmdVars, storeVars, jobs, running, reminder_callback, timers,
                   histVars>>

\* _send_reminder letting the exception of bot.fetch_user through: the
\* except of _process_pending_reminders ends the cycle.
SweepFetchedAborts(l, outcome) ==
    /\ alive
    /\ loops[l].pc = "fetch"
    /\ loops' = IF outcome = "ok"
                 THEN [loops EXCEPT ![l].pc = "send"]
                 ELSE [loops EXCEPT ![l] = [pc |-> "sleep", queue |-> <<>>, att |-> <<>>]]
    /\ UNCHANGED <<alive, is_running, now, utc_offset, cmdVars, storeVars, jobs, running, reminder_callback, timers,
                   histVars>>

\* bot.fetch_user returns or raises in _send_reminder.
SweepFetched(l, outcome) ==
    /\ alive
    /\ loops[l].pc = "fetch"
    /\ loops' = IF outcome = "ok"
                 THEN [loops EXCEPT ![l].pc = "send"]
                 ELSE [loops EXCEPT ![l] = send_next(@, Tail(@.queue), tasks)]
    /\ UNCHANGED <<alive, is_running, now, utc_offset, cmdVars, storeVars, jobs, running, reminder_callback, timers,
                   histVars>>

\* user.send returns or raises in _send_reminder; mark_reminder_sent on
\* success; then the for-loop goes on to its next await.
SweepSent(l, outcome) ==
    /\ alive
    /\ loops[l].pc = "send"
    /\ LET r == Head(loops[l].queue).id
       IN /\ reminders' = send_reminder(reminders, r, outcome)
          /\ sends' = [sends EXCEPT ![r] = IF outcome = "ok" THEN @ + 1 ELSE @]
    /\ loops' = [loops EXCEPT ![l] = send_next(@, Tail(@.queue), tasks)]
    /\ UNCHANGED <<alive, is_running, now, utc_offset, cmdVars, persisted, tasks, details, nextId, jobs, running,
                   reminder_callback, timers, cancelled, adds>>

\* ---- the scheduler's interface called directly ----

RECURSIVE SumOver(_, _)
SumOver(f, S) ==
    IF S = {} THEN 0
    ELSE LET x == CHOOSE y \in S : TRUE IN f[x] + SumOver(f, S \ {x})

\* The history entry of the jobs in gone, which an operation has removed.
cancel_jobs(c, gone, current_time) ==
    [r \in DOMAIN c |->
        IF \E j \in gone : j.id = r
        THEN IF \E j \in gone : j.id = r /\ current_time < j.run_date
             THEN "early" ELSE "late"
        ELSE c[r]]

\* reminder_scheduler.add_reminder(id, reminder_time, ..., task_id, ...) with
\* any id, time (past times included) and task.
AddReminder(id, reminder_time, task_id) ==
    /\ alive
    /\ SumOver(adds, ReminderIds) < MaxAdds
    /\ jobs' = add_reminder(jobs, id, reminder_time, task_id)
    /\ adds' = [adds EXCEPT ![id] = @ + 1]
    /\ cancelled' = [cancelled EXCEPT ![id] = "no"]
    /\ UNCHANGED <<alive, now, utc_offset, cmdVars, storeVars, running, reminder_callback, timers, loops, is_running,
                   sends>>

\* reminder_scheduler.remove_reminder(id).
RemoveReminder(id) ==
    /\ alive
    /\ jobs' = remove_reminder(jobs, id).jobs
    /\ cancelled' = cancel_jobs(cancelled, jobs \ jobs', now)
    /\ UNCHANGED <<alive, now, utc_offset, cmdVars, storeVars, running, reminder_callback, timers, loops, is_running,
                   sends, adds>>

\* reminder_scheduler.update_reminder(id, new_time).
UpdateReminder(id, new_time) ==
    /\ alive
    /\ jobs' = update_reminder(jobs, id, new_time).jobs
    /\ cancelled' = cancel_jobs(cancelled, jobs \ jobs', now)
    /\ UNCHANGED <<alive, now, utc_offset, cmdVars, storeVars, running, reminder_callback, timers, loops, is_running,
                   sends, adds>>

\* reminder_scheduler.clear_all_jobs().
ClearAllJobs ==
    /\ alive
    /\ jobs' = clear_all_jobs(jobs)
    /\ cancelled' = cancel_jobs(cancelled, jobs \ jobs', now)
    /\ UNCHANGED <<alive, now, utc_offset, cmdVars, storeVars, running, reminder_callback, timers, loops, is_running,
                   sends, adds>>

\* The messaging call _send_reminder is awaiting (bot.fetch_user or
\* user.send) never returns: the awaits carry no timeout, so the coroutine
\* stays suspended in the call.
MessagingHangs(l) ==
    /\ alive
    /\ loops[l].pc \in {"fetch", "send"}
    /\ loops' = [loops EXCEPT ![l].pc = "hung"]
    /\ UNCHANGED <<alive, is_running, now, utc_offset, cmdVars, storeVars, jobs, running, reminder_callback,
                   timers, histVars>>

\* The bot as it is wired: its commands, its events, the job table and the
\* two delivery paths.
Next ==
    \/ \E t \in TaskIds, d \in 1..MaxTime : SetReminder(t, d)
    \/ \E t \in TaskIds : DeleteTask(t)
    \/ OnReady
    \/ Shutdown
    \/ Tick
    \/ \E r \in ReminderIds : JobDue(r)
    \/ \E r \in ReminderIds : CallbackStart(r)
    \/ \E r \in ReminderIds, o \in FetchOutcomes : CallbackFetched(r, o)
    \/ \E r \in ReminderIds, o \in SendOutcomes : CallbackSent(r, o)
    \/ \E l \in Loops : SweepCycle(l)
    \/ \E l \in Loops, o \in FetchOutcomes : SweepFetched(l, o)
    \/ \E l \in Loops, o \in SendOutcomes : SweepSent(l, o)

Spec == Init /\ [][Next]_vars

\* The same with the handler's cancel operation called at any point.
NextApi ==
    \/ Next
    \/ \E r \in ReminderIds : DeleteReminder(r)

SpecApi == Init /\ [][NextApi]_vars

\* Process start on a store that an earlier run left with Backlog unsent
\* reminders, and no reminder is created in this run.
InitRestart ==
    /\ alive = TRUE
    /\ now = 0
    /\ utc_offset = 0
    /\ persisted = PersistedIds
    /\ tasks = TaskIds
    /\ details = [t \in TaskIds |-> Task("Buy milk")]
    /\ reminders \in [PersistedIds -> {Reminder(t, d) : t \in TaskIds, d \in 0..MaxTime}]
    /\ nextId = Backlog + 1
    /\ jobs = {}
    /\ running = FALSE
    /\ reminder_callback = 0
    /\ timers = <<>>
    /\ loops = [l \in Loops |-> [pc |-> "off", queue |-> <<>>, att |-> <<>>]]
    /\ is_running = [l \in Loops |-> FALSE]
    /\ sends = [r \in ReminderIds |-> 0]
    /\ cancelled = [r \in ReminderIds |-> "no"]
    /\ adds = [r \in ReminderIds |-> 0]
    /\ NoCommand

NextRestart ==
    \/ \E r \in ReminderIds : DeleteReminder(r)
    \/ \E t \in TaskIds : DeleteTask(t)
    \/ OnReady
    \/ Shutdown
    \/ Tick
    \/ \E l \in Loops : SweepCycle(l)
    \/ \E l \in Loops, o \in FetchOutcomes : SweepFetched(l, o)
    \/ \E l \in Loops, o \in SendOutcomes : SweepSent(l, o)

SpecRestart == InitRestart /\ [][NextRestart]_vars

\* The bot as it is wired, on a host in any time zone: due times are parsed
\* and checked against datetime.now(), and the job table runs in the host's
\* local zone, while the sweep queries with datetime.utcnow().
InitTz ==
    /\ alive = TRUE
    /\ now = 0
    /\ utc_offset \in UtcOffsets
    /\ persisted = {}
    /\ tasks = TaskIds
    /\ details = [t \in TaskIds |-> Task("Buy milk")]
    /\ reminders = <<>>
    /\ nextId = 1
    /\ jobs = {}
    /\ running = FALSE
    /\ reminder_callback = 0
    /\ timers = <<>>
    /\ loops = [l \in Loops |-> [pc |-> "off", queue |-> <<>>, att |-> <<>>]]
    /\ is_running = [l \in Loops |-> FALSE]
    /\ sends = [r \in ReminderIds |-> 0]
    /\ cancelled = [r \in ReminderIds |-> "no"]
    /\ adds = [r \in ReminderIds |-> 0]
    /\ NoCommand

SpecTz == InitTz /\ [][Next]_vars

\* The bot as it is wired, with a messaging service whose only failure is a
\* refused direct message: fetch_user succeeds, and user.send returns or
\* raises Forbidden.
NextDenied ==
    \/ \E t \in TaskIds, d \in 1..MaxTime : SetReminder(t, d)
    \/ \E t \in TaskIds : DeleteTask(t)
    \/ OnReady
    \/ Shutdown
    \/ Tick
    \/ \E r \in ReminderIds : JobDue(r)
    \/ \E r \in ReminderIds : CallbackStart(r)
    \/ \E r \in ReminderIds : CallbackFetched(r, "ok")
    \/ \E r \in ReminderIds, o \in {"ok", "Forbidden"} : CallbackSent(r, o)
    \/ \E l \in Loops : SweepCycle(l)
    \/ \E l \in Loops : SweepFetched(l, "ok")
    \/ \E l \in Loops, o \in {"ok", "Forbidden"} : SweepSent(l, o)

SpecDenied == Init /\ [][NextDenied]_vars

\* The bot as it is wired, with a messaging service that may stop answering.
NextHang ==
    \/ Next
    \/ \E l \in Loops : MessagingHangs(l)

SpecHang == Init /\ [][NextHang]_vars

\* ---- the time parser called on its own ----

\* The clock readings tried: a week of days from Sunday 2025-07-06, in the
\* morning and half a minute before midnight.
Clocks ==
    {dt_add(datetime(2025, 7, 6, 0, 0, 0, 0), timedelta(d, t[1], t[2])) :
        d \in 0..6, t \in {<<33330, 250000>>, <<86370, 500000>>}}

\* The texts tried.
Amounts == (0..MaxAmount) \cup {4000000}
Units == {"minute", "minutes", "hour", "hours", "day", "days"}
InText(n, unit) == "in " \o str(n) \o " " \o unit
ClockHours == {9, 12, 13, 25}
ClockMinutes == {0, 30}
Suffixes == {"", "am", "pm"}
AtText(day, h, m, suffix) == day \o " at " \o str(h) \o ":" \o zfill(m, 2) \o suffix
NextText(k) == "next " \o weekday_names[k]
Dates == {"2025-07-06", "2025-12-31"}
Times12 == {"10:00", "12:30", "9:05"}
Spelled(D, T, S) == <<D \o " " \o T \o " " \o S,
                     "'" \o D \o "' '" \o T \o " " \o S \o "'",
                     D \o " " \o T \o S>>
Unrecognised == {"not a time", "invalid", ""}

TimeTexts ==
    {InText(n, u) : n \in Amounts, u \in Units}
    \cup {"tomorrow", "next week"}
    \cup {NextText(k) : k \in 1..7}
    \cup {AtText(day, h, m, x) : day \in {"today", "tomorrow"}, h \in ClockHours,
                                 m \in ClockMinutes, x \in Suffixes}
    \cup UNION {{Spelled(D, T, S)[k] : k \in 1..3} :
                    D \in Dates, T \in Times12, S \in {"AM", "PM"}}
    \cup Unrecognised

\* The times handed to format_relative_time, as distances from the clock.
Distances ==
    {timedelta(d, sec, 0) : d \in {-1, 0, 1, 2}, sec \in {0, 1, 59, 60, 3599, 3600, 7200}}

InitParser ==
    /\ alive = TRUE
    /\ now = 0
    /\ utc_offset = 0
    /\ persisted = {}
    /\ tasks = TaskIds
    /\ details = [t \in TaskIds |-> Task("Buy milk")]
    /\ reminders = <<>>
    /\ nextId = 1
    /\ jobs = {}
    /\ running = FALSE
    /\ reminder_callback = 0
    /\ timers = <<>>
    /\ loops = [l \in Loops |-> [pc |-> "off", queue |-> <<>>, att |-> <<>>]]
    /\ is_running = [l \in Loops |-> FALSE]
    /\ sends = [r \in ReminderIds |-> 0]
    /\ cancelled = [r \in ReminderIds |-> "no"]
    /\ adds = [r \in ReminderIds |-> 0]
    /\ clock \in Clocks
    /\ request \in [op : {"parse_time"}, arg : TimeTexts]
                   \cup {[op |-> "format_relative_time", arg |-> dt_add(clock, d)] :
                            d \in Distances}
    /\ reply = [type |-> "none"]
    /\ messages = <<>>

botVars == <<alive, now, utc_offset, storeVars, jobs, running, reminder_callback,
             timers, loops, is_running, histVars>>

\* TimeParser.parse_time(request.arg) is called.
ParseTime ==
    /\ request.op = "parse_time"
    /\ reply.type = "none"
    /\ reply' = parse_time(request.arg, clock)
    /\ UNCHANGED <<botVars, clock, request, messages>>

\* TimeParser.format_time is called on the datetime parse_time returned.
FormatTime ==
    /\ request.op = "parse_time"
    /\ reply.type = "datetime"
    /\ reply' = [type |-> "str", val |-> format_time(reply), arg |-> reply]
    /\ UNCHANGED <<botVars, clock, request, messages>>

\* TimeParser.format_relative_time(request.arg) is called.
FormatRelativeTime ==
    /\ request.op = "format_relative_time"
    /\ reply.type = "none"
    /\ reply' = [type |-> "str", val |-> format_relative_time(request.arg, clock),
                 arg |-> request.arg]
    /\ UNCHANGED <<botVars, clock, request, messages>>

NextParser ==
    \/ ParseTime
    \/ FormatTime
    \/ FormatRelativeTime

SpecParser == InitParser /\ [][NextParser]_vars

\* ---- the remind command typed once ----

\* The time part of the command as typed, and the message behind it.
TypedTimes ==
    {"in 2 minutes", "'in 2 minutes'", "\"in 2 minutes\"", "tomorrow", "'in 0 minutes'",
     "'2025-07-06' '10:00 AM'", "'2025-12-31' '10:00 AM'", "nonsense",
     "'today at 25:00'"}
TypedMessages == {"", "Don't forget", "Call mom", "it's Bob's turn", "say \"hi\" to Al"}
Typed(time, message) == IF message = "" THEN time ELSE time \o " " \o message
TypedTaskIds ==
    {ObjectIdText(t) : t \in TaskIds} \cup {"64b7f0c2a1d3e4f5a6b7c8d0", "12"}
Authors == {1, 2}

InitRemind ==
    /\ alive = TRUE
    /\ now = 0
    /\ utc_offset = 0
    /\ persisted = {}
    /\ tasks = TaskIds
    /\ details = [t \in TaskIds |-> Task("Buy milk")]
    /\ reminders = <<>>
    /\ nextId = 1
    /\ jobs = {}
    /\ running = FALSE
    /\ reminder_callback = 0
    /\ timers = <<>>
    /\ loops = [l \in Loops |-> [pc |-> "off", queue |-> <<>>, att |-> <<>>]]
    /\ is_running = [l \in Loops |-> FALSE]
    /\ sends = [r \in ReminderIds |-> 0]
    /\ cancelled = [r \in ReminderIds |-> "no"]
    /\ adds = [r \in ReminderIds |-> 0]
    /\ clock \in {datetime(2025, 7, 6, 9, 15, 30, 250000),
                  datetime(2025, 7, 6, 23, 59, 30, 500000)}
    /\ request \in {[op |-> "remind", author |-> a, task_id |-> id, arg |-> Typed(t, m)] :
                       a \in Authors, id \in TypedTaskIds, t \in TypedTimes,
                       m \in TypedMessages}
    /\ reply = [type |-> "none"]
    /\ messages = <<>>

\* The remind command runs: the whole of set_reminder, which has no await
\* before its reply.
RemindCommand ==
    /\ alive
    /\ request.op = "remind"
    /\ reply.type = "none"
    /\ LET out == set_reminder([tasks |-> tasks, reminders |-> reminders, jobs |-> jobs,
                                nextId |-> nextId, messages |-> messages,
                                reply |-> reply],
                               request.author, request.task_id, request.arg, clock)
       IN /\ reminders' = out.reminders
          /\ jobs' = out.jobs
          /\ nextId' = out.nextId
          /\ messages' = out.messages
          /\ reply' = out.reply
    /\ UNCHANGED <<alive, now, utc_offset, persisted, tasks, details, running, reminder_callback,
                   timers, loops, is_running, histVars, clock, request>>

NextRemind == RemindCommand

SpecRemind == InitRemind /\ [][NextRemind]_vars

\* ---- the reminder processor: on_ready on every (re)connect, the sweep
\* loops of the handlers it builds, and stop_reminder_processor; the
\* reminders of the store are due or not when the process starts, and the
\* clock is not followed further ----

InitReady ==
    /\ alive = TRUE
    /\ now = 0
    /\ utc_offset = 0
    /\ \E p \in 0..MaxReminders :
          /\ persisted = 1..p
          /\ reminders \in [1..p -> {Reminder(t, d) : t \in TaskIds, d \in 0..MaxTime}]
          /\ nextId = p + 1
    /\ tasks = TaskIds
    /\ details = [t \in TaskIds |-> Task("Buy milk")]
    /\ jobs = {}
    /\ running = FALSE
    /\ reminder_callback = 0
    /\ timers = <<>>
    /\ loops = [l \in Handlers |-> [pc |-> "off", queue |-> <<>>, att |-> <<>>]]
    /\ is_running = [l \in Handlers |-> FALSE]
    /\ sends = [r \in ReminderIds |-> 0]
    /\ cancelled = [r \in ReminderIds |-> "no"]
    /\ adds = [r \in ReminderIds |-> 0]
    /\ NoCommand

\* ReminderJobHandler.stop_reminder_processor of handler l.
StopProcessor(l) ==
    /\ alive
    /\ loops[l].pc # "off"
    /\ is_running' = [is_running EXCEPT ![l] = FALSE]
    /\ UNCHANGED <<alive, now, utc_offset, cmdVars, storeVars, jobs, running,
                   reminder_callback, timers, loops, histVars>>

\* _process_reminders_loop of handler l at the end of its sleep, with
\* is_running False: the while loop is left and the task ends.
LoopExit(l) ==
    /\ alive
    /\ loops[l].pc = "sleep"
    /\ ~is_running[l]
    /\ loops' = [loops EXCEPT ![l].pc = "done"]
    /\ UNCHANGED <<alive, is_running, now, utc_offset, cmdVars, storeVars, jobs, running,
                   reminder_callback, timers, histVars>>

NextReady ==
    \/ OnReady
    \/ \E l \in Handlers : StopProcessor(l)
    \/ \E l \in Handlers : LoopExit(l)
    \/ \E l \in Handlers : SweepCycle(l)
    \/ \E l \in Handlers, o \in FetchOutcomes : SweepFetched(l, o)
    \/ \E l \in Handlers, o \in SendOutcomes : SweepSent(l, o)

SpecReady == InitReady /\ [][NextReady]_vars

\* ---- the sweep cycles of a process that starts on a store holding unsent
\* reminders; on_ready is delivered once, so one sweep loop exists; tasks
\* may be deleted while a cycle runs ----

InitCycles ==
    /\ alive = TRUE
    /\ now = 0
    /\ utc_offset = 0
    /\ persisted = PersistedIds
    /\ tasks = TaskIds
    /\ details = [t \in TaskIds |-> Task("Buy milk")]
    /\ reminders \in [PersistedIds -> {Reminder(t, d) : t \in TaskIds, d \in 0..MaxTime}]
    /\ nextId = Backlog + 1
    /\ jobs = {}
    /\ running = FALSE
    /\ reminder_callback = 0
    /\ timers = <<>>
    /\ loops = [l \in {1} |-> [pc |-> "off", queue |-> <<>>, att |-> <<>>]]
    /\ is_running = [l \in {1} |-> FALSE]
    /\ sends = [r \in ReminderIds |-> 0]
    /\ cancelled = [r \in ReminderIds |-> "no"]
    /\ adds = [r \in ReminderIds |-> 0]
    /\ NoCommand

NextCycles ==
    \/ \E t \in TaskIds : DeleteTask(t)
    \/ OnReady
    \/ Tick
    \/ SweepCycle(1)
    \/ \E o \in FetchOutcomes : SweepFetched(1, o)
    \/ \E o \in SendOutcomes : SweepSent(1, o)

SpecCycles == InitCycles /\ [][NextCycles]_vars

\* ---- the sweep with a store that can fail: the process starts on a store
\* that holds unsent reminders, and the update of mark_reminder_sent may
\* fail; no job is registered ----

\* user.send returns in _send_reminder and the update_one of
\* mark_reminder_sent then raises or modifies nothing: mark_reminder_sent
\* returns False, which _send_reminder does not look at, and the for-loop
\* goes on. MaxSends bounds the deliveries counted per reminder.
SweepSentUnmarked(l) ==
    /\ alive
    /\ loops[l].pc = "send"
    /\ sends[Head(loops[l].queue).id] < MaxSends
    /\ sends' = [sends EXCEPT ![Head(loops[l].queue).id] = @ + 1]
    /\ loops' = [loops EXCEPT ![l] = send_next(@, Tail(@.queue), tasks)]
    /\ UNCHANGED <<alive, is_running, now, utc_offset, cmdVars, storeVars, jobs, running,
                   reminder_callback, timers, cancelled, adds>>

NextStoreFails ==
    \/ OnReady
    \/ Tick
    \/ \E l \in Loops : SweepCycle(l)
    \/ \E l \in Loops, o \in FetchOutcomes : SweepFetched(l, o)
    \/ \E l \in Loops, o \in SendOutcomes : SweepSent(l, o)
    \/ \E l \in Loops : SweepSentUnmarked(l)

SpecStoreFails == InitRestart /\ [][NextStoreFails]_vars

\* ---- create_reminder with a store and a job table that can fail, and the
\* two delivery paths with a messaging service that works ----

CallOutcomes == {"ok", "raise"}

\* ReminderJobHandler.create_reminder(user, t, d, message) is called; insert
\* and add are what insert_one and add_job do.
CreateReminder(t, d, insert, add) ==
    /\ alive
    /\ nextId <= MaxReminders
    /\ LET c == create_reminder_or_fail(reminders, jobs, nextId, t, d, insert, add)
       IN /\ reminders' = c.reminders
          /\ jobs' = c.jobs
          /\ nextId' = IF insert = "ok" THEN nextId + 1 ELSE nextId
          /\ reply' = [type |-> "return", val |-> c.val, insert |-> insert, add |-> add]
    /\ request' = [op |-> "create_reminder", task_id |-> t, reminder_time |-> d]
    /\ UNCHANGED <<alive, now, utc_offset, clock, messages, persisted, tasks, details,
                   running, reminder_callback, timers, loops, is_running, histVars>>

NextCreate ==
    \/ \E t \in TaskIds, d \in 0..MaxTime, i \in CallOutcomes, a \in CallOutcomes :
          CreateReminder(t, d, i, a)
    \/ OnReady
    \/ Tick
    \/ \E r \in ReminderIds : JobDue(r)
    \/ \E r \in ReminderIds : CallbackStart(r)
    \/ \E r \in ReminderIds : CallbackFetched(r, "ok")
    \/ \E r \in ReminderIds : CallbackSent(r, "ok")
    \/ \E l \in Loops : SweepCycle(l)
    \/ \E l \in Loops : SweepFetched(l, "ok")
    \/ \E l \in Loops : SweepSent(l, "ok")

SpecCreate == Init /\ [][NextCreate]_vars

\* ---- the scheduler started before a callback is registered: start() is
\* called on the scheduler directly, on_ready comes later; the sweep loop
\* keeps cycling, and the messaging service does not fail forever ----

\* reminder_scheduler.start() called directly, on a scheduler that is not
\* running.
StartScheduler ==
    /\ alive
    /\ ~running
    /\ running' = TRUE
    /\ UNCHANGED <<alive, now, utc_offset, cmdVars, storeVars, jobs, reminder_callback,
                   timers, loops, is_running, histVars>>

\* The process starts on an empty store and one reminder is created in the
\* run; on_ready is delivered once, so one handler and one sweep loop exist.
InitUnwired ==
    /\ alive = TRUE
    /\ now = 0
    /\ utc_offset = 0
    /\ persisted = {}
    /\ reminders = <<>>
    /\ nextId = 1
    /\ tasks = TaskIds
    /\ details = [t \in TaskIds |-> Task("Buy milk")]
    /\ jobs = {}
    /\ running = FALSE
    /\ reminder_callback = 0
    /\ timers = <<>>
    /\ loops = [l \in {1} |-> [pc |-> "off", queue |-> <<>>, att |-> <<>>]]
    /\ is_running = [l \in {1} |-> FALSE]
    /\ sends = [r \in ReminderIds |-> 0]
    /\ cancelled = [r \in ReminderIds |-> "no"]
    /\ adds = [r \in ReminderIds |-> 0]
    /\ NoCommand

\* The one create_reminder call of the run: the store is still empty.
CreateFirst(t, d, insert, add) ==
    /\ nextId = 1
    /\ CreateReminder(t, d, insert, add)

NextUnwired ==
    \/ \E t \in TaskIds, d \in 0..MaxTime, i \in CallOutcomes, a \in CallOutcomes :
          CreateFirst(t, d, i, a)
    \/ StartScheduler
    \/ OnReady
    \/ Tick
    \/ \E r \in ReminderIds : JobDue(r)
    \/ \E r \in ReminderIds : CallbackStart(r)
    \/ \E r \in ReminderIds, o \in FetchOutcomes : CallbackFetched(r, o)
    \/ \E r \in ReminderIds, o \in SendOutcomes : CallbackSent(r, o)
    \/ SweepCycle(1)
    \/ \E o \in FetchOutcomes : SweepFetched(1, o)
    \/ \E o \in SendOutcomes : SweepSent(1, o)

\* The loop task is scheduled again at the end of each sleep; bot.fetch_user
\* and user.send, tried again and again, do not fail every time.
FairSweep ==
    /\ WF_vars(SweepCycle(1))
    /\ SF_vars(SweepFetched(1, "ok"))
    /\ SF_vars(SweepSent(1, "ok"))

SpecUnwired == InitUnwired /\ [][NextUnwired]_vars /\ FairSweep

\* ---- the task commands: one command, typed by a user, runs on a store
\* that holds every task (all of user 1), with or without a reminder that
\* is pending for task 1 ----

TypedIds ==
    {ObjectIdText(t) : t \in TaskIds}
        \cup {"64b7f0c2a1d3e4f5a6b7c8d0", "12", "64B7F0C2A1D3E4F5A6B7C8D1",
              ObjectIdText(1) \o "\n", ObjectIdText(1) \o "0"}
TypedFields == {"title", "Priority", "due_date", "owner"}
TypedValues == {"high", "  Buy   bread ", "tomorrow", "in 4000000 days"}
TypedPriorities == {"High", "urgent"}
TypedReminds == {"in 2 minutes", "nonsense"}
Documents ==
    {[Task("Buy milk") EXCEPT !.completed = c, !.priority = p] :
        c \in BOOLEAN, p \in {"medium", "high"}}
Requests ==
    {[op |-> o, author |-> a, task_id |-> id, arg |-> ""] :
        o \in {"view", "complete", "delete"}, a \in Authors, id \in TypedIds}
    \cup {[op |-> "edit", author |-> a, task_id |-> id, field |-> f, arg |-> v] :
            a \in Authors, id \in TypedIds, f \in TypedFields, v \in TypedValues}
    \cup {[op |-> "priority", author |-> a, task_id |-> id, arg |-> v] :
            a \in Authors, id \in TypedIds, v \in TypedPriorities}
    \cup {[op |-> "remind", author |-> a, task_id |-> id, arg |-> v] :
            a \in Authors, id \in TypedIds, v \in TypedReminds}

InitCommands ==
    /\ alive = TRUE
    /\ now = 0
    /\ utc_offset = 0
    /\ persisted = {}
    /\ tasks = TaskIds
    /\ details \in [TaskIds -> Documents]
    /\ clock = datetime(2025, 7, 6, 9, 15, 30, 250000)
    /\ \E n \in 0..1 :
          /\ reminders = [r \in 1..n |-> Reminder(1, datetime(2025, 7, 7, 9, 0, 0, 0))]
          /\ jobs = {Job(r, datetime(2025, 7, 7, 9, 0, 0, 0), 1) : r \in 1..n}
          /\ messages = [r \in 1..n |-> "Call mom"]
          /\ nextId = n + 1
    /\ running = FALSE
    /\ reminder_callback = 0
    /\ timers = <<>>
    /\ loops = [l \in Loops |-> [pc |-> "off", queue |-> <<>>, att |-> <<>>]]
    /\ is_running = [l \in Loops |-> FALSE]
    /\ sends = [r \in ReminderIds |-> 0]
    /\ cancelled = [r \in ReminderIds |-> "no"]
    /\ adds = [r \in ReminderIds |-> 0]
    /\ request \in Requests
    /\ reply = [type |-> "none"]

\* The collections and the job table as a command finds them.
store_now ==
    [tasks |-> tasks, details |-> details, reminders |-> reminders, jobs |-> jobs,
     nextId |-> nextId, messages |-> messages, reply |-> reply]

\* What a command's handler leaves behind, the handler having no await
\* before its reply.
Commanded(out) ==
    /\ tasks' = out.tasks
    /\ details' = out.details
    /\ reminders' = out.reminders
    /\ jobs' = out.jobs
    /\ nextId' = out.nextId
    /\ messages' = out.messages
    /\ reply' = out.reply
    /\ UNCHANGED <<alive, now, utc_offset, persisted, running, reminder_callback,
                   timers, loops, is_running, histVars, clock, request>>

\* The view command runs.
ViewTask ==
    /\ alive /\ request.op = "view" /\ reply.type = "none"
    /\ Commanded(view_task(store_now, request.author, request.task_id))

\* The complete command runs.
CompleteTask ==
    /\ alive /\ request.op = "complete" /\ reply.type = "none"
    /\ Commanded(complete_task(store_now, request.author, request.task_id))

\* The delete command runs.
DeleteTaskCommand ==
    /\ alive /\ request.op = "delete" /\ reply.type = "none"
    /\ Commanded(delete_task_command(store_now, request.author, request.task_id))

\* The edit command runs.
EditTask ==
    /\ alive /\ request.op = "edit" /\ reply.type = "none"
    /\ Commanded(edit_task(store_now, request.author, request.task_id,
                           request.field, request.arg, clock))

\* The priority command runs.
SetPriority ==
    /\ alive /\ request.op = "priority" /\ reply.type = "none"
    /\ Commanded(set_priority(store_now, request.author, request.task_id, request.arg))

NextCommands ==
    \/ ViewTask
    \/ CompleteTask
    \/ DeleteTaskCommand
    \/ EditTask
    \/ SetPriority
    \/ RemindCommand

SpecCommands == InitCommands /\ [][NextCommands]_vars

\* The scheduler with its interface called in any order, on an empty
\* reminder store: jobs are registered, removed, updated and cleared, the
\* scheduler is started by on_ready, the clock advances, and due jobs fire
\* into the timer callback.
InitSched ==
    /\ alive = TRUE
    /\ now = 0
    /\ utc_offset = 0
    /\ persisted = {}
    /\ tasks = TaskIds
    /\ details = [t \in TaskIds |-> Task("Buy milk")]
    /\ reminders = <<>>
    /\ nextId = 1
    /\ jobs = {}
    /\ running = FALSE
    /\ reminder_callback = 0
    /\ timers = <<>>
    /\ loops = [l \in Loops |-> [pc |-> "off", queue |-> <<>>, att |-> <<>>]]
    /\ is_running = [l \in Loops |-> FALSE]
    /\ sends = [r \in ReminderIds |-> 0]
    /\ cancelled = [r \in ReminderIds |-> "no"]
    /\ adds = [r \in ReminderIds |-> 0]
    /\ NoCommand

NextSched ==
    \/ \E r \in ReminderIds, d \in 0..MaxTime, t \in TaskIds : AddReminder(r, d, t)
    \/ \E r \in ReminderIds : RemoveReminder(r)
    \/ \E r \in ReminderIds, d \in 0..MaxTime : UpdateReminder(r, d)
    \/ ClearAllJobs
    \/ OnReady
    \/ Tick
    \/ \E r \in ReminderIds : JobDue(r)
    \/ \E r \in ReminderIds : CallbackStart(r)
    \/ \E r \in ReminderIds, o \in FetchOutcomes : CallbackFetched(r, o)
    \/ \E r \in ReminderIds, o \in SendOutcomes : CallbackSent(r, o)

SpecSched == InitSched /\ [][NextSched]_vars

\* The same from the state on_ready leaves on a fresh process: the scheduler
\* is started and the callback registered before any job is registered.
InitStarted ==
    /\ alive = TRUE
    /\ now = 0
    /\ utc_offset = 0
    /\ persisted = {}
    /\ tasks = TaskIds
    /\ details = [t \in TaskIds |-> Task("Buy milk")]
    /\ reminders = <<>>
    /\ nextId = 1
    /\ jobs = {}
    /\ running = TRUE
    /\ reminder_callback = 1
    /\ timers = <<>>
    /\ loops = [l \in Loops |-> [pc |-> IF l = 1 THEN "sleep" ELSE "off",
                                  queue |-> <<>>, att |-> <<>>]]
    /\ is_running = [l \in Loops |-> l = 1]
    /\ sends = [r \in ReminderIds |-> 0]
    /\ cancelled = [r \in ReminderIds |-> "no"]
    /\ adds = [r \in ReminderIds |-> 0]
    /\ NoCommand

NextStarted ==
    \/ \E r \in ReminderIds, d \in 0..MaxTime, t \in TaskIds : AddReminder(r, d, t)
    \/ \E r \in ReminderIds : RemoveReminder(r)
    \/ \E r \in ReminderIds, d \in 0..MaxTime : UpdateReminder(r, d)
    \/ ClearAllJobs
    \/ Tick
    \/ \E r \in ReminderIds : JobDue(r)
    \/ \E r \in ReminderIds : CallbackStart(r)
    \/ \E r \in ReminderIds, o \in FetchOutcomes : CallbackFetched(r, o)
    \/ \E r \in ReminderIds, o \in SendOutcomes : CallbackSent(r, o)

SpecStarted == InitStarted /\ [][NextStarted]_vars

TypeOK ==
    /\ alive \in BOOLEAN
    /\ now \in 0..MaxTime
    /\ tasks \subseteq TaskIds
    /\ DOMAIN details = tasks
    /\ DOMAIN reminders \subseteq ReminderIds
    /\ JobIds(jobs) \subseteq ReminderIds
    /\ DOMAIN timers \subseteq ReminderIds

\* ---- what a step does, read off a pair of states ----

Stored(r) == r \in DOMAIN reminders
IsSent(r) == Stored(r) /\ reminders[r].sent
Pending(r) ==
    /\ Stored(r)
    /\ reminders[r].reminder_time <= utcnow(now, utc_offset)
    /\ ~reminders[r].sent

\* The job of r fires in this step: its coroutine is created.
JobFires(r) == JobDue(r) /\ r \in DOMAIN timers'

\* id's job is cancelled in this step by an operation of the scheduler.
JobCancelled(r) ==
    /\ cancelled'[r] # "no"
    /\ \/ RemoveReminder(r)
       \/ \E d \in 0..MaxTime : UpdateReminder(r, d)
       \/ ClearAllJobs

\* The dispatch callback of r's fired job ends with an exception in this
\* step (raised by bot.fetch_user or by user.send).
CallbackRaises(r) ==
    /\ r \in DOMAIN timers
    /\ \/ /\ timers[r].pc = "fetch"
          /\ \E o \in FetchOutcomes \ {"ok"} : CallbackFetched(r, o)
       \/ /\ timers[r].pc = "send"
          /\ \E o \in SendOutcomes \ {"ok"} : CallbackSent(r, o)

\* user.send is called for r in this step (either path).
SendCalled(r) ==
    \/ /\ r \in DOMAIN timers
       /\ timers[r].pc = "fetch"
       /\ \E o \in FetchOutcomes : CallbackFetched(r, o)
       /\ r \in DOMAIN timers'
    \/ \E l \in Loops :
          /\ loops[l].pc = "fetch"
          /\ Head(loops[l].queue).id = r
          /\ SweepFetched(l, "ok")

\* The for-loop of l's running cycle goes on to the next reminder in this
\* step: the call of _send_reminder at the head of the list has returned.
SweepAdvances(l) ==
    \/ /\ loops[l].pc = "fetch"
       /\ \E o \in FetchOutcomes \ {"ok"} : SweepFetched(l, o)
    \/ /\ loops[l].pc = "send"
       /\ \E o \in SendOutcomes : SweepSent(l, o)

\* _send_reminder(r) is invoked by loop l in this step.
SweepInvokes(l, r) ==
    \/ /\ SweepCycle(l)
       /\ r \in Invoked(process_pending_reminders(reminders, utcnow(now, utc_offset)).queue, tasks)
    \/ /\ SweepAdvances(l)
       /\ r \in Invoked(Tail(loops[l].queue), tasks)

\* user.send for r raises Forbidden in this step (either path).
SendRefused(r) ==
    \/ /\ r \in DOMAIN timers
       /\ timers[r].pc = "send"
       /\ CallbackSent(r, "Forbidden")
    \/ \E l \in Loops :
          /\ loops[l].pc = "send"
          /\ Head(loops[l].queue).id = r
          /\ SweepSent(l, "Forbidden")

\* A delivery attempt for r ends in this step without a confirmed send.
FailedAttempt(r) ==
    \/ /\ CallbackStart(r)
       /\ reminder_callback # 0
       /\ ~get_task_by_id(tasks, timers[r].task_id)
    \/ \E o \in FetchOutcomes \ {"ok"} : CallbackFetched(r, o)
    \/ \E o \in SendOutcomes \ {"ok"} : CallbackSent(r, o)
    \/ \E l \in Loops :
          \/ /\ SweepCycle(l)
             /\ r \in Skipped(process_pending_reminders(reminders, utcnow(now, utc_offset)).queue, tasks)
          \/ /\ SweepAdvances(l)
             /\ r \in Skipped(Tail(loops[l].queue), tasks)
          \/ /\ loops[l].pc = "fetch"
             /\ Head(loops[l].queue).id = r
             /\ \E o \in FetchOutcomes \ {"ok"} : SweepFetched(l, o)
          \/ /\ loops[l].pc = "send"
             /\ Head(loops[l].queue).id = r
             /\ \E o \in SendOutcomes \ {"ok"} : SweepSent(l, o)

\* ---- claims ----

\* C1: a reminder created in this run, with a due time in the future, is
\* delivered at most once over every interleaving of the timer callback and
\* the sweep, and its record is sent exactly when that one delivery has been
\* made.
CX_C1 ==
    \A r \in DOMAIN reminders \ persisted :
        /\ sends[r] <= 1
        /\ reminders[r].sent <=> sends[r] = 1

\* C2: in every reachable state a reminder whose record has sent = true has
\* had a successful send.
CX_C2 == \A r \in DOMAIN reminders : reminders[r].sent => sends[r] >= 1

\* C3: a reminder record is created with sent = false, and no step takes the
\* sent flag of a stored reminder from true back to false.
Thm_C3 ==
    [][\A r \in ReminderIds :
          /\ (~Stored(r) /\ Stored(r)') => ~reminders'[r].sent
          /\ (IsSent(r) /\ Stored(r)') => reminders'[r].sent]_vars

\* A reminder created in this run that both paths have delivered: the second
\* mark_reminder_sent found the flag true, and it is still true.
Wit_C3 == \E r \in DOMAIN reminders \ persisted : IsSent(r) /\ sends[r] >= 2

CX_C11 ==
    running =>
        \A r \in persisted :
            (Stored(r) /\ ~reminders[r].sent /\ reminders[r].reminder_time > now) =>
                \E j \in JobsOf(jobs, r) : j.run_date = reminders[r].reminder_time

\* C12: a step add_reminder(id, t2, p2), whatever was registered for id before
\* (nothing, or a job at t1 with payload p), leaves exactly one job for id, the
\* one firing at t2 with payload p2, and leaves the jobs of other ids alone.
Thm_C12 ==
    [][\A r \in ReminderIds :
          adds'[r] # adds[r] =>
              \A d \in 0..MaxTime, t \in TaskIds :
                  AddReminder(r, d, t) =>
                      /\ JobsOf(jobs', r) = {Job(r, d, t)}
                      /\ jobs' \ JobsOf(jobs', r) = jobs \ JobsOf(jobs, r)]_vars

\* add_reminder has been called twice for one id before the scheduler was
\* started (so no job has fired), and the table holds one job for it.
Wit_C12 ==
    \E r \in ReminderIds :
        /\ adds[r] = 2 /\ ~running /\ now = 0
        /\ Cardinality(JobsOf(jobs, r)) = 1

\* C13: in every state reached by add_reminder, remove_reminder,
\* update_reminder, clear_all_jobs and timer fires in any order, the job table
\* holds at most one job per reminder id.
Thm_C13 == \A j1 \in jobs, j2 \in jobs : j1.id = j2.id => j1 = j2

\* An id whose job has fired (its callback is in flight) has been registered
\* again and has one live job.
Wit_C13 ==
    \E r \in ReminderIds :
        /\ running /\ r \in DOMAIN timers
        /\ adds[r] = 2
        /\ Cardinality(JobsOf(jobs, r)) = 1

\* C14: a job leaves the job table only by firing, which removes it and
\* creates the coroutine that invokes the dispatch callback, or by being
\* cancelled; a job that is scheduled and not cancelled is not dropped
\* without its callback having been invoked.
CX_C14 ==
    [][\A r \in ReminderIds :
          /\ (JobsOf(jobs, r) # {} /\ JobsOf(jobs', r) = {}) =>
                 JobFires(r) \/ JobCancelled(r)
          /\ JobFires(r) => r \notin JobIds(jobs')]_vars

\* C15: no delivery before the due time on either path: a job fires only when
\* its run date has been reached, and a sweep cycle selects (calls
\* _send_reminder for) only reminders whose due time is not after the current
\* time.
CX_C15 ==
    [][\A r \in ReminderIds :
          /\ JobFires(r) => \A j \in JobsOf(jobs, r) : j.run_date <= now
          /\ (Stored(r) /\ \E l \in Loops : SweepInvokes(l, r)) =>
                 reminders[r].reminder_time <= now]_vars

\* C16: with the scheduler started before any registration, a job whose run
\* date is behind the clock was registered with a fire time in the past; when
\* the scheduler processes it, it fires (its coroutine is created, which
\* invokes the callback) and is removed.
CX_C16 ==
    [][\A r \in ReminderIds :
          (/\ r \notin DOMAIN timers
           /\ \E j \in JobsOf(jobs, r) : j.run_date < now
           /\ JobDue(r)) =>
              /\ r \in DOMAIN timers'
              /\ r \notin JobIds(jobs')]_vars

\* C17: a step in which the dispatch callback of a fired job ends with an
\* exception leaves the scheduler running and the job table as it was: the
\* failing job, removed when it fired, is not put back (no retry), the jobs of
\* other ids stay scheduled and the callbacks of other ids in flight go on;
\* and the step in which a job fires removes it from the table.
Thm_C17 ==
    [][\A r \in ReminderIds :
          /\ CallbackRaises(r) =>
                 /\ alive' /\ running'
                 /\ jobs' = jobs
                 /\ r \notin DOMAIN timers'
                 /\ \A q \in DOMAIN timers \ {r} :
                        q \in DOMAIN timers' /\ timers'[q] = timers[q]
          /\ (r \notin DOMAIN timers /\ JobFires(r)) =>
                 \E j \in JobsOf(jobs, r) : jobs' = jobs \ {j}]_vars

\* At clock 0 on a started scheduler (nothing can have been missed), the one
\* job registered for r has left the table without a cancel and its callback
\* has ended without a send, that is with an exception; the job of another id
\* has fired since it was registered and its callback is in flight.
Wit_C17 ==
    \E r \in ReminderIds, q \in ReminderIds :
        /\ r # q /\ now = 0 /\ running
        /\ adds[r] = 1 /\ cancelled[r] = "no" /\ sends[r] = 0
        /\ r \notin JobIds(jobs) /\ r \notin DOMAIN timers
        /\ adds[q] = 1 /\ q \in DOMAIN timers

\* C18: in every reachable state and for every id, remove_reminder(id) leaves
\* no job for id and leaves the jobs of other ids alone; when id has no job
\* it changes nothing in the job table and reports no error.
CX_C18 ==
    \A r \in ReminderIds :
        LET res == remove_reminder(jobs, r)
        IN /\ JobsOf(res.jobs, r) = {}
           /\ res.jobs \ JobsOf(res.jobs, r) = jobs \ JobsOf(jobs, r)
           /\ JobsOf(jobs, r) = {} => (res.jobs = jobs /\ ~res.error)

\* C19: a step in which user.send for r is refused leaves r's record as it
\* was (unsent stays unsent); a step that starts a sweep cycle selects every
\* stored, due, unsent reminder, whatever was attempted for it before, and no
\* reminder that is marked sent; and no cycle holds more than one
\* _send_reminder call for a reminder.
Thm_C19 ==
    [][/\ \A r \in DOMAIN reminders :
             SendRefused(r) => (Stored(r)' /\ reminders'[r] = reminders[r])
       /\ \A l \in Loops :
             (loops[l].pc = "sleep" /\ SweepCycle(l)) =>
                 \A r \in DOMAIN reminders :
                     /\ Pending(r) => (r \in DOMAIN loops'[l].att \/ SweepInvokes(l, r))
                     /\ reminders[r].sent =>
                            (r \notin DOMAIN loops'[l].att /\ ~SweepInvokes(l, r))
       /\ \A l \in Loops : \A r \in DOMAIN loops'[l].att : loops'[l].att[r] <= 1]_vars

\* The job of a reminder created in this run fired at its due time and its
\* callback has ended without a send; its task is stored, so user.send was
\* refused (nothing else can fail here). The record is unsent, and a sweep
\* cycle that selected it is about to call user.send for it.
Wit_C19 ==
    \E r \in DOMAIN reminders \ persisted :
        /\ alive /\ running
        /\ get_task_by_id(tasks, reminders[r].task_id)
        /\ reminders[r].reminder_time = now
        /\ r \notin JobIds(jobs) /\ r \notin DOMAIN timers
        /\ ~reminders[r].sent /\ sends[r] = 0
        /\ \E l \in Loops :
              /\ loops[l].pc = "send"
              /\ Head(loops[l].queue).id = r

\* C20 (the sweep's part): while the delivery at the head of a running sweep
\* cycle is suspended in a messaging call, the delivery of another reminder
\* the cycle selected can start: a step that invokes _send_reminder for it
\* without the head's call having returned is possible.
CX_C20 ==
    \A l \in Loops : \A q \in DOMAIN loops[l].att :
        (loops[l].pc \in {"fetch", "send"} /\ loops[l].att[q] = 0) =>
            ENABLED (SweepInvokes(l, q) /\ ~SweepAdvances(l))

\* C21: a delivery attempt whose messaging call never returns still ends: in
\* every state in which a sweep loop is suspended in such a call, a step of
\* the running process that takes the loop out of the call (the attempt
\* ending as a failure, the loop going on) is possible.
CX_C21 ==
    \A l \in Loops :
        loops[l].pc = "hung" =>
            ENABLED (NextHang /\ alive' /\ loops'[l].pc # "hung")
\* ---- the time parser ----

\* parse_time has been called and reply is what it gave.
Parsed == request.op = "parse_time" /\ reply.type \in {"datetime", "None", "raise"}

\* The clock's date moved by days, at the given time of day.
OnDay(days, hour, minute, second, microsecond) ==
    LET ymd == ord2ymd(toordinal(clock) + days)
    IN datetime(ymd.year, ymd.month, ymd.day, hour, minute, second, microsecond)

\* now + seconds, computed on the second of the day.
After(days, seconds) ==
    LET total == SecondOfDay(clock) + seconds
    IN OnDay(days + (total \div 86400), (total % 86400) \div 3600,
             ((total % 86400) % 3600) \div 60, total % 60, clock.microsecond)

\* The hour of the day a 12-hour or 24-hour clock reading with its suffix names.
HourOfDay(h, suffix) ==
    IF suffix = "pm" /\ h # 12 THEN h + 12
    ELSE IF suffix = "am" /\ h = 12 THEN 0
    ELSE h

\* C24: parse_time is total: every call returns a timestamp or None and never
\* raises, and an unrecognised text gives None.
CX_C24 ==
    Parsed =>
        /\ reply.type # "raise"
        /\ request.arg \in Unrecognised => reply = None

\* C25: "tomorrow at H:MM[am|pm]" gives tomorrow's date at that clock time and
\* "today at H:MM[am|pm]" today's date at that clock time, seconds and
\* microseconds zero (stated for the readings that name a time of the day).
CX_C25 ==
    \A day \in {"today", "tomorrow"}, h \in ClockHours, m \in ClockMinutes,
       x \in Suffixes :
        (/\ Parsed
         /\ request.arg = AtText(day, h, m, x)
         /\ HourOfDay(h, x) <= 23)
        => reply = OnDay(IF day = "tomorrow" THEN 1 ELSE 0, HourOfDay(h, x), m, 0, 0)

\* C26: "in N <unit>" gives now + N * unit for every N, and "tomorrow" gives
\* now + 1 day at the same time of day.
CX_C26 ==
    /\ \A n \in Amounts :
          /\ Parsed /\ request.arg \in {InText(n, "minute"), InText(n, "minutes")}
                => reply.type = "datetime" /\ reply = After(n \div 1440, (n % 1440) * 60)
          /\ Parsed /\ request.arg \in {InText(n, "hour"), InText(n, "hours")}
                => reply.type = "datetime" /\ reply = After(n \div 24, (n % 24) * 3600)
          /\ Parsed /\ request.arg \in {InText(n, "day"), InText(n, "days")}
                => reply.type = "datetime" /\ reply = After(n, 0)
    /\ Parsed /\ request.arg = "tomorrow" => reply = After(1, 0)

\* C27: "next W" gives a time on weekday W, 1 to 7 days after today, and
\* exactly 7 days after when today is W.
Thm_C27 ==
    \A k \in 1..7 :
        Parsed /\ request.arg = NextText(k)
        => /\ reply.type = "datetime"
           /\ weekday(reply) = k - 1
           /\ toordinal(reply) - toordinal(clock) \in 1..7
           /\ weekday(clock) = k - 1 => toordinal(reply) - toordinal(clock) = 7

Wit_C27 ==
    \E k \in 1..7 :
        /\ Parsed
        /\ request.arg = NextText(k)
        /\ weekday(clock) = k - 1
        /\ reply.type = "datetime"
\* The instant a date text D (YYYY-MM-DD), a clock text T (H:MM) and a suffix
\* S (AM or PM) name, read off their digits.
InstantOf(D, T, S) ==
    LET colon == find(T, ":", 1)
        h == int(SubSeq(T, 1, colon - 1))
    IN datetime(int(SubSeq(D, 1, 4)), int(SubSeq(D, 6, 7)), int(SubSeq(D, 9, 10)),
                IF S = "PM" THEN (IF h = 12 THEN 12 ELSE h + 12)
                ELSE (IF h = 12 THEN 0 ELSE h),
                int(From(T, colon + 1)), 0, 0)

\* C28: the three spellings "D T AM", "'D' 'T AM'" and "D TAM" of one instant
\* parse to that same timestamp, and format_time of the result is a text that
\* parses back to it.
Thm_C28 ==
    \A D \in Dates, T \in Times12, S \in {"AM", "PM"}, k \in 1..3 :
        request.op = "parse_time" /\ request.arg = Spelled(D, T, S)[k]
        => /\ Parsed => reply = InstantOf(D, T, S)
           /\ reply.type = "str" =>
                 /\ reply.arg = InstantOf(D, T, S)
                 /\ parse_time(reply.val, clock) = reply.arg

Wit_C28 ==
    /\ request.op = "parse_time"
    /\ request.arg = Spelled("2025-07-06", "10:00", "AM")[3]
    /\ reply.type = "str"
    /\ reply.arg = datetime(2025, 7, 6, 10, 0, 0, 0)

\* C30: format_relative_time gives "past due" for a time that is not after
\* now, the time equal to now included, and otherwise the largest whole unit
\* of the time left: days, else hours, else minutes, else "now".
CX_C30 ==
    request.op = "format_relative_time" /\ reply.type = "str"
    => LET left == dt_sub(request.arg, clock)
       IN reply.val =
            IF dt_le(request.arg, clock) THEN "past due"
            ELSE IF left.days >= 1 THEN in_units(left.days, "day")
            ELSE IF left.seconds >= 3600 THEN in_units(left.seconds \div 3600, "hour")
            ELSE IF left.seconds >= 60 THEN in_units(left.seconds \div 60, "minute")
            ELSE "now"
\* ---- the remind command ----

\* The command ran for its owner on the stored task 1 with this text.
Reminded(text) ==
    /\ request.op = "remind"
    /\ request.author = user_id(1)
    /\ request.task_id = ObjectIdText(1)
    /\ request.arg = text
    /\ reply.type = "reply"

\* C22: the remind request "in 2 minutes" followed by the message "Don't
\* forget", by the owner of an existing task, creates a reminder due 2
\* minutes after the creation time with the message "Don't forget".
CX_C22 ==
    Reminded(Typed("in 2 minutes", "Don't forget"))
    => /\ DOMAIN reminders = {1}
       /\ reminders[1].reminder_time = After(0, 120)
       /\ messages[1] = "Don't forget"

\* The replies that refuse the request as an error of the user's input.
UserInputErrors ==
    {"Invalid task ID format!", "Invalid time format!",
     "Reminder time must be in the future!"}

\* C23: a remind request refused as an error of the user's input changes
\* neither the reminders collection nor the job table, and every reminder
\* the command creates is due strictly after the time of its creation.
Thm_C23 ==
    [][RemindCommand =>
        /\ reply'.text \in UserInputErrors =>
              UNCHANGED <<storeVars, jobs, messages>>
        /\ \A r \in DOMAIN reminders' \ DOMAIN reminders :
              ~dt_le(reminders'[r].reminder_time, clock)]_vars

Wit_C23 ==
    /\ Reminded(Typed("'in 0 minutes'", "Call mom"))
    /\ reply.text = "Reminder time must be in the future!"
    /\ reminders = <<>>
    /\ jobs = {}

\* C29: for a request whose text is a quoted date, a quoted time and a
\* message, the text handed to the parser is date and time joined by one
\* space, and the stored message is the message, whatever the message is.
CX_C29 ==
    \A D \in Dates, m \in TypedMessages :
        Reminded(Typed("'" \o D \o "' '10:00 AM'", m))
        => /\ reply.time_str = D \o " 10:00 AM"
           /\ reply.text = "Reminder Set!" => messages[1] = m

\* ---- the task commands ----

\* A text of exactly 24 characters, each one of 0-9 or a-f.
WellFormed(s) == Len(s) = 24 /\ all_hex(s, 1)

\* C31: validate_task_id is true exactly for the texts of exactly 24
\* characters that are each one of 0-9 or a-f, and a command given any other
\* id replies "Invalid task ID format!" (never "Task not found!").
CX_C31 ==
    reply.type = "reply" =>
        /\ validate_task_id(request.task_id) <=> WellFormed(request.task_id)
        /\ ~WellFormed(request.task_id) => reply.text = "Invalid task ID format!"


\* The request names a stored task that its author does not own.
NotOwner ==
    /\ get_task_by_id(tasks, task_of(request.task_id))
    /\ user_id(task_of(request.task_id)) # request.author

\* C35: a view, complete, delete, edit, remind or priority command typed by
\* a user who is not the owner of the task it names changes neither the
\* tasks collection, nor the reminders collection, nor the job table.
Thm_C35 ==
    [][(NextCommands /\ NotOwner) => UNCHANGED <<storeVars, jobs, messages>>]_vars

Wit_C35 ==
    /\ request.op = "delete"
    /\ request.author = 2
    /\ request.task_id = ObjectIdText(1)
    /\ reply.type = "reply"
    /\ reply.text = "You can only delete your own tasks!"
    /\ 1 \in tasks
    /\ DOMAIN reminders = {1}


\* ---- the reminder processor ----

\* The sweep loop tasks that are alive: created and not ended.
LiveLoops == {l \in DOMAIN loops : loops[l].pc \in {"sleep", "fetch", "send"}}

\* C32: whatever on_ready events and stop_reminder_processor calls have
\* happened, at most one _process_reminders_loop task is alive.
CX_C32 == Cardinality(LiveLoops) <= 1


\* ---- the job table's update ----

\* C33: in every reachable state, update_reminder(id, new_time) on an id
\* that has a job returns True and leaves exactly that job, moved to
\* new_time with the arguments it had, as the one job of id; on an id with
\* no job it returns False and leaves the job table as it was.
CX_C33 ==
    \A r \in ReminderIds, d \in 0..MaxTime :
        LET res == update_reminder(jobs, r, d)
        IN /\ JobsOf(jobs, r) # {} =>
                 /\ res.val
                 /\ JobsOf(res.jobs, r) = {[j EXCEPT !.run_date = d] : j \in JobsOf(jobs, r)}
                 /\ Cardinality(JobsOf(res.jobs, r)) = 1
           /\ JobsOf(jobs, r) = {} => (~res.val /\ res.jobs = jobs)


\* ---- the sweep and a failing store ----

\* C34: with the sweep as the only delivery path, a reminder is sent at most
\* once even when the update that marks it sent fails after the send.
CX_C34 == \A r \in ReminderIds : sends[r] <= 1


\* ---- create_reminder ----

\* C36: a create_reminder call that returns None has stored no record and
\* added no job; a call that returns an id has stored a record under that
\* id with sent = false, also when registering the job failed.
Thm_C36 ==
    [][\A t \in TaskIds, d \in 0..MaxTime, i \in CallOutcomes, a \in CallOutcomes :
          CreateReminder(t, d, i, a) =>
              /\ reply'.val = 0 => UNCHANGED <<reminders, jobs>>
              /\ reply'.val # 0 =>
                    /\ reply'.val \notin DOMAIN reminders
                    /\ reply'.val \in DOMAIN reminders'
                    /\ ~reminders'[reply'.val].sent]_vars

\* A call returned id 1 although add_job failed: the record is stored
\* unsent and there is no job for it.
Wit_C36 ==
    /\ reply.type = "return"
    /\ reply.val = 1
    /\ reply.add = "raise"
    /\ Stored(1) /\ ~IsSent(1)
    /\ JobsOf(jobs, 1) = {}
    /\ sends[1] = 0


\* ---- a job that fires with no callback registered ----

\* The job of r has fired, its coroutine has not run yet, no callback is
\* registered, and r is stored unsent.
FiredUnwired(r) ==
    /\ r \in DOMAIN timers
    /\ timers[r].pc = "start"
    /\ reminder_callback = 0
    /\ Stored(r)
    /\ ~IsSent(r)

\* A sweep loop has been started.
ProcessorRuns == \E l \in DOMAIN loops : loops[l].pc # "off"

Stopped(l) == loops[l].pc # "off" /\ ~is_running[l]

\* The awaits the loop task of l still has before it, counted from its
\* position: two for each reminder left in the cycle's list (fetch_user and
\* send), one for the sleep.
Remaining(loop) ==
    CASE loop.pc = "fetch" -> 2 * Len(loop.queue) + 2
      [] loop.pc = "send" -> 2 * Len(loop.queue) + 1
      [] loop.pc = "sleep" -> 1
      [] OTHER -> 0

\* A step of the loop task of l.
LoopStep(l) ==
    \/ LoopExit(l)
    \/ SweepCycle(l)
    \/ \E o \in FetchOutcomes : SweepFetched(l, o)
    \/ \E o \in SendOutcomes : SweepSent(l, o)

\* C38: once stop_reminder_processor has been called on a handler it stays
\* stopped, its loop starts no cycle again (from its sleep it only ends), every
\* step of the loop task brings it nearer to its end, the ended task stays
\* ended, and until it has ended the task always has a step to take: the
\* loop task terminates after finishing at most the cycle it is in.
Thm_C38 ==
    /\ [][\A l \in Handlers :
             Stopped(l) =>
                 /\ Stopped(l)'
                 /\ loops[l].pc = "sleep" => loops'[l].pc \in {"sleep", "done"}
                 /\ loops'[l] # loops[l] => Remaining(loops'[l]) < Remaining(loops[l])]_vars
    /\ [](\A l \in Handlers :
             (Stopped(l) /\ loops[l].pc # "done") => ENABLED LoopStep(l))

\* The loop task of a stopped handler has ended while the loop of another
\* handler is in the middle of a cycle.
Wit_C38 ==
    \E l \in Handlers, k \in Handlers :
        /\ Stopped(l)
        /\ loops[l].pc = "done"
        /\ k # l
        /\ is_running[k]
        /\ loops[k].pc = "fetch"

\* ---- a failing delivery within a sweep cycle ----

\* The cycle of loop l is left in this step, the process going on.
CycleLeft(l) ==
    /\ loops[l].pc \in {"fetch", "send"}
    /\ loops'[l].pc \notin {"fetch", "send"}
    /\ alive'

\* The number of times _send_reminder(r) has been invoked in the cycle of l
\* when this step has been taken: those counted so far, and the reminders
\* with a missing task this step passes over.
InvokedInCycle(l, r) ==
    loops[l].att[r] + (IF r \in Skipped(Tail(loops[l].queue), tasks) THEN 1 ELSE 0)

\* The delivery at the head of l's list fails in this step: bot.fetch_user
\* or user.send raises.
FailsIn(l) ==
    \/ /\ loops[l].pc = "fetch"
       /\ \E o \in FetchOutcomes \ {"ok"} : SweepFetched(l, o)
    \/ /\ loops[l].pc = "send"
       /\ \E o \in SendOutcomes \ {"ok"} : SweepSent(l, o)

\* A reminder after the head of l's list has its task in the store.
OthersLeft(l) ==
    \E i \in 2..Len(loops[l].queue) : get_task_by_id(tasks, loops[l].queue[i].task_id)

\* C39: whatever the outcomes of the deliveries of a cycle, the cycle is
\* left only when _send_reminder has been invoked once for every reminder
\* its query returned, and it is left for the sleep before the next cycle,
\* the loop still running; a delivery that fails while others are left is
\* followed, in the same cycle, by the attempt of another reminder.
Thm_C39 ==
    [][\A l \in DOMAIN loops :
          /\ CycleLeft(l) =>
                /\ \A r \in DOMAIN loops[l].att : InvokedInCycle(l, r) = 1
                /\ loops'[l].pc = "sleep"
                /\ is_running'[l]
          /\ (FailsIn(l) /\ OthersLeft(l)) =>
                /\ loops'[l].pc = "fetch"
                /\ Head(loops'[l].queue).id # Head(loops[l].queue).id
                /\ loops'[l].att[Head(loops'[l].queue).id] = 1]_vars

\* In one cycle the delivery of reminder 1 has failed (it was attempted, its
\* task exists and it is unsent) and reminder 2, returned by the same query,
\* is being sent.
Wit_C39 ==
    \E l \in DOMAIN loops :
        /\ loops[l].pc = "send"
        /\ Head(loops[l].queue).id = 2
        /\ 1 \in DOMAIN loops[l].att
        /\ loops[l].att[1] = 1
        /\ Stored(1) /\ ~IsSent(1)
        /\ get_task_by_id(tasks, reminders[1].task_id)
        /\ sends[1] = 0

====
